---- MODULE Spec2Model ----
(***************************************************************************)
(* The newphoria classification pipeline (scripts/classify.mjs): one run   *)
(* fetches items from four adapters, aggregates and deduplicates them,     *)
(* checks them against the stored history, classifies the new ones chunk   *)
(* by chunk with the oracle, inserts them into the articles table,         *)
(* recomputes the featured set and writes one row to ingestion_log.        *)
(* The articles table and its views come from the SQL schema.              *)
(*                                                                         *)
(* Time is measured in hours.  A title is a sequence of characters, so     *)
(* that lower-casing, splitting at whitespace and the length filter of     *)
(* findSimilar are computed as the code computes them.                     *)
(***************************************************************************)
EXTENDS Integers, Sequences, FiniteSets, TLC

VARIABLES
    articles,       \* the articles table: a set of rows, each with its id
    ingestion_log,  \* the ingestion_log table: a sequence of rows
    now,            \* wall clock, in hours
    config,         \* the config object of the script
    pc,             \* where run() is
    stats,          \* run(): const stats
    snapshot,       \* what the four adapters settled with in this run
    allArticles,    \* run(): let allArticles
    newArticles,    \* run(): const newArticles
    classified,     \* run(): const classified
    idx,            \* loop position (1-based) of the loop run() is in
    topIds,         \* updateFeatured(): data of the select
    hist,           \* history of the current and the previous run (not program state)
    fetcher,        \* one call of a source adapter: its loop over its sub-queries
    call,           \* one call of classifyBatch: its chunk, the oracle's answer, its result
    reading,        \* one call of estimateReadTime: its text and its result
    settling,       \* Promise.allSettled of run(): the outcome of each adapter, as they settle
    triggered,      \* two invocations of run() that overlap: where each is in its store
                    \* loop and in updateFeatured
    page            \* the feed page: currentOffset, currentCategory, isLoading, hasMore
                    \* and the requests of loadMore and of the filter buttons in flight

store == <<articles, ingestion_log>>
loc   == <<allArticles, newArticles, classified, idx, topIds>>
aside == <<fetcher, call, reading, settling, triggered, page>>     \* what run() itself never touches
vars  == <<articles, ingestion_log, now, config, pc, stats, snapshot,
           allArticles, newArticles, classified, idx, topIds, hist, fetcher,
           call, reading, settling, triggered, page>>

NULL == "null"

Max(a, b) == IF a >= b THEN a ELSE b
Min(a, b) == IF a <= b THEN a ELSE b

RECURSIVE SeqToSet(_)
SeqToSet(s) == IF s = <<>> THEN {} ELSE {Head(s)} \cup SeqToSet(Tail(s))

RECURSIVE Concat(_)
Concat(ss) == IF ss = <<>> THEN <<>> ELSE Head(ss) \o Concat(Tail(ss))

(***************************************************************************)
(* Strings.                                                                *)
(***************************************************************************)
Whitespace == {" "}

LowerMap == [c \in {"S", "M", "T"} |->
               CASE c = "S" -> "s" [] c = "M" -> "m" [] c = "T" -> "t"]

\* String.prototype.toLowerCase
toLowerCase(s) == [k \in 1..Len(s) |-> IF s[k] \in DOMAIN LowerMap THEN LowerMap[s[k]] ELSE s[k]]

\* String.prototype.split(/\s+/): a run of whitespace ends the current piece; the
\* piece before a leading run and the piece after a trailing run are empty strings.
RECURSIVE SplitFrom(_, _, _, _)
SplitFrom(s, k, cur, acc) ==
    IF k > Len(s) THEN Append(acc, cur)
    ELSE IF s[k] \in Whitespace
         THEN IF k > 1 /\ s[k-1] \in Whitespace
              THEN SplitFrom(s, k + 1, cur, acc)
              ELSE SplitFrom(s, k + 1, <<>>, Append(acc, cur))
         ELSE SplitFrom(s, k + 1, Append(cur, s[k]), acc)

split(s) == SplitFrom(s, 1, <<>>, <<>>)

MinWordLen == 3

LongWord(w) == Len(w) > MinWordLen

\* title.toLowerCase().split(/\s+/).filter(w => w.length > 3)
Words(title) == SelectSeq(split(toLowerCase(title)), LongWord)

\* words.filter(w => existingWords.includes(w)).length
Overlap(words, existingWords) ==
    Len(SelectSeq(words, LAMBDA w : \E k \in 1..Len(existingWords) : existingWords[k] = w))

\* The default threshold of findSimilar, 0.6, as a fraction.
ThresholdNum == 6
ThresholdDen == 10

\* similarity >= threshold, with similarity = overlap / Math.max(words.length,
\* existingWords.length); 0 / 0 is NaN, and NaN >= threshold is false.
SimilarEnough(words, existingWords) ==
    LET m == Max(Len(words), Len(existingWords))
    IN  /\ m > 0
        /\ Overlap(words, existingWords) * ThresholdDen >= ThresholdNum * m

(***************************************************************************)
(* Bounds of the model and constants of the program.                       *)
(***************************************************************************)
MaxRuns   == 2    \* runs of the pipeline in one behaviour of SpecTwice
MaxFaults == 1    \* failed store requests and exceptions of one behaviour
SmallBatch == 2   \* config.batch_size of the bounded runs
SmallCap   == 3   \* config.max_articles of the bounded runs

batch_size      == 10
max_articles    == 200
min_bloom_score == 3

SimilarWindow == 48    \* findSimilar: Date.now() - 48 * 60 * 60 * 1000
FeaturedWindow == 24   \* updateFeatured: Date.now() - 24 * 60 * 60 * 1000
FeaturedLimit == 3     \* updateFeatured: .limit(3)
ViewMinBloom  == 3     \* feed_articles: a.bloom_score >= 3

StartHour == 3 * FeaturedWindow   \* the clock at the first run
TickHours == FeaturedWindow       \* one clock advance
\* At LastHour every row of the bounded runs has left the 48 hour window, and the 24
\* hour one with it: a later hour changes no query's answer.
LastHour  == StartHour + SimilarWindow

DefaultBloom      == 3   \* || 3, and the fallback of the catch
DefaultConfidence == 5   \* || 0.5, in tenths
FallbackConfidence == 0  \* ai_confidence: 0 of the catch

(***************************************************************************)
(* Items the adapters can emit.  A missing (null, undefined or empty)      *)
(* title is the empty string <<>>; a missing source URL or excerpt is NULL.*)
(***************************************************************************)
Item(api, url, title, excerpt, at) ==
    [title |-> title, excerpt |-> excerpt, source_url |-> url,
     published_at |-> at, api_source |-> api]

tSolar  == <<"S","o","l","a","r">>
tSolar2 == <<"s","o","l","a","r"," "," ","s","o","l","a","r">>
tMars3  == <<"m","a","r","s"," ","r","o","v","e","r"," ","l","a","n","d","s">>
tMars2  == <<"T","h","e"," ","M","a","r","s"," ","r","o","v","e","r">>
tThe    == <<"t","h","e">>

Adapters == <<"newsapi", "guardian", "gnews", "rss">>

Fulfilled(v) == [status |-> "fulfilled", value |-> v]
Rejected     == [status |-> "rejected", value |-> <<>>]

\* What each adapter can settle with in the bounded runs.
Feeds(api) ==
    CASE api = "newsapi" ->
           { Rejected,
             Fulfilled(<<Item(api, "u1", tSolar, "e1", 70), Item(api, "u3", tMars3, NULL, 70)>>) }
      [] api = "guardian" ->
           { Fulfilled(<<>>),
             Fulfilled(<<Item(api, "u4", tMars2, "e4", 70), Item(api, "u1", tThe, "e5", 40),
                         Item(api, "u5", <<>>, "e6", 70)>>) }
      [] api = "gnews" ->
           { Rejected,
             Fulfilled(<<Item(api, NULL, tMars3, "e7", 70), Item(api, "u2", tSolar2, "e2", 48)>>) }
      [] api = "rss" ->
           { Fulfilled(<<>>),
             Fulfilled(<<Item(api, "u3", tMars3, "e3", 70)>>) }

Snapshots == { f \in [1..Len(Adapters) -> UNION {Feeds(Adapters[k]) : k \in 1..Len(Adapters)}] :
                 \A k \in 1..Len(Adapters) : f[k] \in Feeds(Adapters[k]) }

(***************************************************************************)
(* The adapters, lines 55-205.  Each loops over its sub-queries (queries,  *)
(* sections, topics or feeds); the body of the loop is one try block.  A   *)
(* sub-query ends in one of these ways: the request rejects; the body of   *)
(* the response is no JSON and res.json() rejects; the response has no     *)
(* list of items; the list is there but is no array of objects, and the    *)
(* map over it throws; or the list is there with its items.                *)
(***************************************************************************)
NewsApiQueries   == 5    \* const queries
GuardianSections == 4    \* const sections
GNewsTopics      == 4    \* const topics
RssFeeds         == 9    \* const feeds
RssItemsPerFeed  == 15   \* slice(0, 15)

SubQueries(api) ==
    CASE api = "newsapi"  -> NewsApiQueries
      [] api = "guardian" -> GuardianSections
      [] api = "gnews"    -> GNewsTopics
      [] api = "rss"      -> RssFeeds

\* An item as a source sends it; a missing text is NULL, a missing date is hour 0.
Raw(title, text, url, at) == [title |-> title, text |-> text, url |-> url, at |-> at]

\* What sub-query i answers with when it answers with items.
RawItems(i) ==
    IF i % 2 = 1 THEN <<Raw(tThe, "e", "q" \o ToString(i), 70)>>
    ELSE <<Raw(tSolar, NULL, "q" \o ToString(i), 0), Raw(<<>>, NULL, "q0", 48)>>

Rejects      == [kind |-> "rejects", items |-> <<>>]
Malformed    == [kind |-> "malformed", items |-> <<>>]
NoList       == [kind |-> "no_list", items |-> <<>>]
BadList      == [kind |-> "bad_list", items |-> <<>>]
Listed(raws) == [kind |-> "items", items |-> raws]

\* rssParser.parseURL either rejects or resolves to the parsed feed, whose items
\* are an array when they are there: no res.json(), no list that is no array
SubOutcomes(api, i) ==
    IF api = "rss" THEN {Rejects, NoList, Listed(RawItems(i))}
    ELSE {Rejects, Malformed, NoList, BadList, Listed(RawItems(i))}

\* value || dflt for a field that is a string or missing
OrElse(value, dflt) == IF value = NULL \/ value = "" THEN dflt ELSE value

\* the object literal of the map callback, for the fields the pipeline reads
Normalized(api, raw, t) ==
    Item(api, raw.url, raw.title,
         IF api \in {"guardian", "rss"} THEN OrElse(raw.text, "") ELSE raw.text,
         IF api = "rss" /\ raw.at = 0 THEN t ELSE raw.at)

\* Whether the try block of the loop body throws.
SubQueryThrows(outcome) == outcome.kind \in {"rejects", "malformed", "bad_list"}

\* AfterSubQuery that empties the array when the sub-query throws.
AfterSubQueryReset(api, articles_, outcome, t) ==
    IF SubQueryThrows(outcome) THEN <<>>
    ELSE IF outcome.kind = "no_list" THEN articles_
    ELSE articles_ \o [k \in 1..Len(outcome.items) |-> Normalized(api, outcome.items[k], t)]

\* const articles after one pass of the loop: articles.push(...list.map(...)) when
\* nothing threw and the list is there
AfterSubQuery(api, articles_, outcome, t) ==
    IF SubQueryThrows(outcome) \/ outcome.kind = "no_list" THEN articles_
    ELSE LET list == IF api = "rss" THEN SubSeq(outcome.items, 1,
                                                Min(RssItemsPerFeed, Len(outcome.items)))
                     ELSE outcome.items
         IN  articles_ \o [k \in 1..Len(list) |-> Normalized(api, list[k], t)]

IdleFetcher ==
    [api |-> "none", pc |-> "idle", i |-> 1, articles |-> <<>>, outcomes |-> <<>>]

runVars == <<store, now, config, pc, stats, snapshot, loc, hist>>

\* The invocations of run() that can overlap: the scheduled one and a manual trigger.
Triggers == {"scheduled", "manual"}

NotTriggered == [pc |-> "idle", classified |-> <<>>, idx |-> 1, topIds |-> {}]

IdleTriggered == [k \in Triggers |-> NotTriggered]

\* The filter buttons: data-cat of each.
Filters == {"all", "science"}

\* Lines 768-771 before init() has run: let currentOffset = 0, currentCategory = 'all',
\* isLoading = false, hasMore = true.  feed is the number of rows feed_articles has
\* for each filter, observer whether the scroll observer is installed, loading and
\* clicking the calls of loadMore and of the click handler waiting for fetchArticles,
\* shown the articles handed to the feed element, by the filter they were fetched
\* for; clicks and faults count the clicks and the failed requests.
IdlePage ==
    [pc |-> "loading", observer |-> FALSE, feed |-> [c \in Filters |-> 0],
     currentOffset |-> 0, currentCategory |-> "all", isLoading |-> FALSE,
     hasMore |-> TRUE, loading |-> <<>>, clicking |-> <<>>,
     shown |-> [c \in Filters |-> 0], clicks |-> 0, faults |-> 0]

\* An adapter is called; hasKey is whether its API key is configured (the RSS
\* adapter has none): if (!config.<api>.key) return [];
CallAdapter(api, hasKey) ==
    /\ fetcher.pc = "idle"
    /\ api = "rss" => hasKey
    /\ fetcher' = [IdleFetcher EXCEPT !.api = api,
                                      !.pc = IF hasKey THEN "loop" ELSE "returned"]
    /\ UNCHANGED <<runVars, call, reading, settling, triggered, page>>

\* One pass of the loop over the sub-queries.
SubQuery(outcome) ==
    /\ fetcher.pc = "loop"
    /\ fetcher.i <= SubQueries(fetcher.api)
    /\ fetcher' = [fetcher EXCEPT
                      !.articles = AfterSubQuery(fetcher.api, @, outcome, now),
                      !.outcomes = Append(@, outcome),
                      !.i = @ + 1]
    /\ UNCHANGED <<runVars, call, reading, settling, triggered, page>>

\* return articles;
ReturnArticles ==
    /\ fetcher.pc = "loop"
    /\ fetcher.i > SubQueries(fetcher.api)
    /\ fetcher' = [fetcher EXCEPT !.pc = "returned"]
    /\ UNCHANGED <<runVars, call, reading, settling, triggered, page>>

(***************************************************************************)
(* run(), lines 476-496: fan-in, filter, intra-batch dedup, cap.           *)
(***************************************************************************)
\* FanIn in the order in which the adapters settled.
FanInAsSettled(settled) ==
    Concat([j \in 1..Len(settling.order) |->
              IF settling.order[j].outcome.status = "fulfilled"
              THEN settling.order[j].outcome.value ELSE <<>>])

\* [...(x.status === 'fulfilled' ? x.value : []), ...] in the order of the array
FanIn(settled) ==
    Concat([k \in 1..Len(settled) |->
              IF settled[k].status = "fulfilled" THEN settled[k].value ELSE <<>>])

\* HasTitleAndUrl without the test of the source URL.
HasTitle(a) == a.title # <<>>

\* a => a.title && a.source_url
HasTitleAndUrl(a) == a.title # <<>> /\ a.source_url # NULL

\* DropSeen that drops nothing: repeated URLs stay in the batch.
KeepSeen(s, seen) == s

\* the filter over const seen = new Set()
RECURSIVE DropSeen(_, _)
DropSeen(s, seen) ==
    IF s = <<>> THEN <<>>
    ELSE IF Head(s).source_url \in seen
         THEN DropSeen(Tail(s), seen)
         ELSE <<Head(s)>> \o DropSeen(Tail(s), seen \cup {Head(s).source_url})

\* Slice0 that keeps the last n elements instead of the first n.
SliceLast(s, n) == SubSeq(s, Len(s) - Min(n, Len(s)) + 1, Len(s))

\* Array.prototype.slice(0, n)
Slice0(s, n) == SubSeq(s, 1, Min(n, Len(s)))

Aggregate(settled, cap) ==
    Slice0(DropSeen(SelectSeq(FanIn(settled), HasTitleAndUrl), {}), cap)

\* Promise.allSettled has not been called.
IdleSettling == [slots |-> <<>>, order |-> <<>>]

\* The promise of an adapter that has not settled yet.
Pending == [status |-> "pending", value |-> <<>>]

(***************************************************************************)
(* The oracle.  A response either rejects (the API call throws) or carries *)
(* a text, a sequence of pieces: a markdown fence with or without the json *)
(* tag, prose, or the text of one JSON value.  A JSON value is an array of *)
(* objects, an object that is no array, or null.  An object of the array   *)
(* names the fields it has: a field it does not name is undefined.         *)
(***************************************************************************)
FenceJson == [t |-> "fence_json"]   \* three backticks and json, with its line break
Fence     == [t |-> "fence"]        \* three backticks, with its line break
Prose     == [t |-> "prose"]
Json(v)   == [t |-> "json", v |-> v]

JArray(objs) == [type |-> "array", items |-> objs]
JObject      == [type |-> "object", items |-> <<>>]
JNull        == [type |-> "null", items |-> <<>>]

Fields == {"bloom_score", "category", "is_weird", "summary", "tags", "confidence"}

Obj(has, bloom, cat, weird, summary, tags, conf) ==
    [has |-> has, bloom_score |-> bloom, category |-> cat, is_weird |-> weird,
     summary |-> summary, tags |-> tags, confidence |-> conf]

oGood  == Obj(Fields, 5, "space", TRUE, "sum", <<"tag">>, 9)
oFour  == Obj(Fields, 4, "science", FALSE, "sum", <<"tag">>, 0)
oLow   == Obj(Fields, 2, "health", FALSE, "", <<>>, 7)
oBare  == Obj({}, 0, "", FALSE, "", <<>>, 0)

Throws     == [kind |-> "throws", text |-> <<>>]
Replies(t) == [kind |-> "replies", text |-> t]

\* The objects of a well-formed answer to n items, by position.
Pattern(n, first, rest) == [k \in 1..n |-> IF k = 1 THEN first ELSE rest]

\* What the oracle can answer to a chunk of n items in the bounded runs.
Responses(n) ==
    { Throws,
      Replies(<<Prose, Json(JArray(Pattern(n, oGood, oGood)))>>),
      Replies(<<FenceJson, Json(JArray(Pattern(n, oGood, oFour))), Fence>>),
      Replies(<<Json(JArray(Pattern(n, oLow, oGood)))>>),
      Replies(<<Json(JArray(Pattern(n - 1, oFour, oBare)))>>),
      Replies(<<Json(JObject)>>),
      Replies(<<Json(JNull)>>) }

(***************************************************************************)
(* classifyBatch, lines 266-313.                                           *)
(***************************************************************************)
\* StripFences without the two replace calls: the text goes to JSON.parse as it is.
StripNothing(text) == text

\* line 284: both replace calls delete the fences, trim the surrounding whitespace
StripFences(text) == SelectSeq(text, LAMBDA p : p # FenceJson /\ p # Fence)

\* JSON.parse: a value when the string is the text of exactly one value, else it throws.
Parses(jsonStr) == Len(jsonStr) = 1 /\ jsonStr[1].t = "json"

\* classifications[i], undefined when there is none (throws on null, see Fails)
HasObject(value, i) == value.type = "array" /\ i <= Len(value.items)

\* classifications[i]?.field || dflt, where no object, no field and a falsy value
\* (0, false, "") all give the default; an array, even an empty one, is truthy.
OrDefault(value, i, field, falsy, dflt) ==
    IF HasObject(value, i) /\ field \in value.items[i].has /\ value.items[i][field] \notin falsy
    THEN value.items[i][field] ELSE dflt

Classification(bloom, cat, weird, summary, tags, conf) ==
    [bloom_score |-> bloom, category_name |-> cat, is_weird |-> weird,
     ai_summary |-> summary, ai_tags |-> tags, ai_confidence |-> conf]

\* ({...article, bloom_score: ..., ...}): the item with the classification fields
WithClassification(article, c) ==
    [title |-> article.title, excerpt |-> article.excerpt, source_url |-> article.source_url,
     published_at |-> article.published_at, api_source |-> article.api_source,
     bloom_score |-> c.bloom_score, category_name |-> c.category_name,
     is_weird |-> c.is_weird, ai_summary |-> c.ai_summary, ai_tags |-> c.ai_tags,
     ai_confidence |-> c.ai_confidence]

\* lines 287-297: the mapping of the try block
Mapped(article, value, i) ==
    WithClassification(article,
        Classification(OrDefault(value, i, "bloom_score", {0}, DefaultBloom),
                       OrDefault(value, i, "category", {""}, "progress"),
                       OrDefault(value, i, "is_weird", {FALSE}, FALSE),
                       OrDefault(value, i, "summary", {""}, article.excerpt),
                       OrDefault(value, i, "tags", {}, <<>>),
                       OrDefault(value, i, "confidence", {0}, DefaultConfidence)))

\* Fallback with the confidence default of the try block, 0.5.
FallbackHalf(article) ==
    WithClassification(article,
        Classification(DefaultBloom, "progress", FALSE, article.excerpt, <<>>,
                       DefaultConfidence))

\* lines 301-311: the mapping of the catch block
Fallback(article) ==
    WithClassification(article,
        Classification(DefaultBloom, "progress", FALSE, article.excerpt, <<>>,
                       FallbackConfidence))

\* Whether the try block throws: the call rejects, JSON.parse throws, or
\* classifications is null and classifications[i] throws a TypeError.
Fails(response) ==
    \/ response.kind = "throws"
    \/ ~Parses(StripFences(response.text))
    \/ StripFences(response.text)[1].v.type = "null"

\* classifyBatch that answers only for the items the response has an object for.
classifyAnswered(batch, response) ==
    IF Fails(response)
    THEN [k \in 1..Len(batch) |-> Fallback(batch[k])]
    ELSE LET value == StripFences(response.text)[1].v
         IN  [k \in 1..Min(Len(batch), Len(value.items)) |-> Mapped(batch[k], value, k)]

classifyBatch(batch, response) ==
    IF Fails(response)
    THEN [k \in 1..Len(batch) |-> Fallback(batch[k])]
    ELSE [k \in 1..Len(batch) |-> Mapped(batch[k], StripFences(response.text)[1].v, k)]

\* The categories of CLASSIFICATION_PROMPT, "CATEGORY (exactly one)".
Categories ==
    {"innovation", "science", "space", "health", "environment", "community",
     "education", "kindness", "progress", "weird"}

\* An object with values outside the rubric: the oracle is a language model, and
\* nothing but the prompt holds it to the scale, the categories or the range.
oWild == Obj(Fields, 7, "politics", TRUE, "sum", <<"tag">>, 12)

\* What the oracle can answer to a chunk of n items, the answers of the bounded
\* runs and more: a fence without the json tag, values outside the rubric.
OracleAnswers(n) ==
    Responses(n) \cup
    { Replies(<<Fence, Json(JArray(Pattern(n, oLow, oFour))), Fence>>),
      Replies(<<FenceJson, Json(JArray(Pattern(n, oGood, oWild))), Fence>>),
      Replies(<<Json(JArray(Pattern(n, oWild, oGood)))>>) }

\* The chunks classifyBatch is called with: at most batch_size items.
CallItems ==
    { Item("newsapi", "u1", tSolar, "e1", 70), Item("rss", "u3", tMars3, NULL, 70),
      Item("guardian", "u4", tMars2, "", 70) }

CallBatches ==
    UNION {[1..n -> CallItems] : n \in 1..SmallBatch}

\* No call of classifyBatch is under way.
IdleCall == [pc |-> "idle", batch |-> <<>>, response |-> Throws, results |-> <<>>]

\* classifyBatch(articles) is called and awaits the oracle, which answers response.
CallClassifyBatch(batch, response) ==
    /\ call.pc = "idle"
    /\ call' = [pc |-> "called", batch |-> batch, response |-> response, results |-> <<>>]
    /\ UNCHANGED <<runVars, fetcher, reading, settling, triggered, page>>

\* Lines 287-311: classifyBatch returns, from its try block or from its catch.
ReturnClassified ==
    /\ call.pc = "called"
    /\ call' = [call EXCEPT !.pc = "returned",
                            !.results = classifyBatch(call.batch, call.response)]
    /\ UNCHANGED <<runVars, fetcher, reading, settling, triggered, page>>

(***************************************************************************)
(* The articles table and the queries of the script.  A query answers with *)
(* its rows, or with no data (data is null) when the request failed.       *)
(***************************************************************************)
Data(rows) == [null |-> FALSE, rows |-> rows]
NoData     == [null |-> TRUE, rows |-> {}]

\* from('articles').select('id').eq('source_url', sourceUrl).limit(1)
ByUrl(rows, sourceUrl) == {r \in rows : r.source_url = sourceUrl}

\* .gte('published_at', Date.now() - window).eq('status', 'published')
PublishedSince(rows, t, window) ==
    {r \in rows : r.status = "published" /\ r.published_at >= t - window}

\* isDuplicate that takes a lookup without data for a match.
isDuplicateOrUnknown(data) == data.null \/ data.rows # {}

\* isDuplicate: return data && data.length > 0
isDuplicate(data) == ~data.null /\ data.rows # {}

\* findSimilar: whether it returns a row; if (!data) return null
findSimilar(title, data) ==
    /\ ~data.null
    /\ \E existing \in data.rows : SimilarEnough(Words(title), Words(existing.title))

\* Record with > where the code has >=: a row at the threshold is rejected.
RecordStrict(article, minBloom) ==
    [title |-> article.title, excerpt |-> article.excerpt,
     source_url |-> article.source_url, category_name |-> article.category_name,
     bloom_score |-> article.bloom_score, is_weird |-> article.is_weird,
     published_at |-> article.published_at, ai_summary |-> article.ai_summary,
     ai_tags |-> article.ai_tags, ai_confidence |-> article.ai_confidence,
     status |-> IF article.bloom_score > minBloom THEN "published" ELSE "rejected",
     is_featured |-> FALSE]

\* storeArticle, lines 374-394: the record, with the column default of is_featured
Record(article, minBloom) ==
    [title |-> article.title, excerpt |-> article.excerpt,
     source_url |-> article.source_url, category_name |-> article.category_name,
     bloom_score |-> article.bloom_score, is_weird |-> article.is_weird,
     published_at |-> article.published_at, ai_summary |-> article.ai_summary,
     ai_tags |-> article.ai_tags, ai_confidence |-> article.ai_confidence,
     status |-> IF article.bloom_score >= minBloom THEN "published" ELSE "rejected",
     is_featured |-> FALSE]

WithId(record, id) == [f \in DOMAIN record \cup {"id"} |-> IF f = "id" THEN id ELSE record[f]]

\* articles.source_url is unique: an insert of a stored URL fails with 23505
Conflicts(rows, record) == \E r \in rows : r.source_url = record.source_url

\* Inserted without the unique constraint on source_url.
InsertedAnyway(rows, record) == rows \cup {WithId(record, Cardinality(rows) + 1)}

\* insert(record): the table after a request that reaches it
Inserted(rows, record) ==
    IF Conflicts(rows, record) THEN rows
    ELSE rows \cup {WithId(record, Cardinality(rows) + 1)}

\* storeArticle's return value; reached is whether the request reached the table
storeArticle(rows, record, reached) ==
    IF ~reached THEN "error"
    ELSE IF Conflicts(rows, record) THEN "skipped"
    ELSE IF record.status = "published" THEN "published" ELSE "rejected"

(***************************************************************************)
(* The views of the schema and the queries of the feed reader.             *)
(***************************************************************************)
feed_articles == {a \in articles : a.status = "published" /\ a.bloom_score >= ViewMinBloom}
weird_articles == {a \in feed_articles : a.is_weird}
\* the rows featured_articles draws its 3 newest from
featured_articles == {a \in feed_articles : a.is_featured}

\* fetchTrending reads feed_articles ordered by view_count
trending_articles == feed_articles

(***************************************************************************)
(* estimateReadTime, lines 413-417.                                        *)
(***************************************************************************)
\* A text is what split(/\s+/) sees of it: whether it is there at all (an excerpt can
\* be null or undefined), its words, and whether whitespace comes before the first
\* word and after the last one.  The empty string is a text with no word and no
\* whitespace; a text with no word and lead or trail is whitespace only.
Text(given, lead, words, trail) ==
    [given |-> given, lead |-> lead, words |-> words, trail |-> trail]

NoText == Text(FALSE, FALSE, 0, FALSE)

MaxWords == 3300   \* the longest text

Texts ==
    {NoText} \cup {Text(TRUE, lead, words, trail) :
                     lead \in BOOLEAN, words \in 0..MaxWords, trail \in BOOLEAN}

\* !text: null, undefined and the empty string are falsy
Falsy(text) == ~text.given \/ (text.words = 0 /\ ~text.lead /\ ~text.trail)

\* text.split(/\s+/).length: the words, an empty piece before leading whitespace and
\* one after trailing whitespace; whitespace alone splits into two empty pieces
Pieces(text) ==
    IF text.words = 0 THEN (IF text.lead \/ text.trail THEN 2 ELSE 1)
    ELSE text.words + (IF text.lead THEN 1 ELSE 0) + (IF text.trail THEN 1 ELSE 0)

WordsPerMinute == 200
MinMinutes     == 2
MaxMinutes     == 15
DefaultMinutes == 3

\* Math.round(n / d) for n >= 0, d > 0: the nearest integer, a half rounded up
Round(n, d) == (2 * n + d) \div (2 * d)

\* estimateReadTime without Math.min(15, ...).
estimateUnclamped(text) ==
    IF Falsy(text) THEN DefaultMinutes
    ELSE Max(MinMinutes, Round(Pieces(text), WordsPerMinute))

estimateReadTime(text) ==
    IF Falsy(text) THEN DefaultMinutes
    ELSE Max(MinMinutes, Min(MaxMinutes, Round(Pieces(text), WordsPerMinute)))

\* No call of estimateReadTime is under way.
IdleReading == [pc |-> "idle", text |-> NoText, minutes |-> 0]

\* storeArticle, line 393: estimateReadTime(article.excerpt)
CallEstimateReadTime(text) ==
    /\ reading.pc = "idle"
    /\ reading' = [pc |-> "called", text |-> text, minutes |-> 0]
    /\ UNCHANGED <<runVars, fetcher, call, settling, triggered, page>>

ReturnMinutes ==
    /\ reading.pc = "called"
    /\ reading' = [reading EXCEPT !.pc = "returned", !.minutes = estimateReadTime(reading.text)]
    /\ UNCHANGED <<runVars, fetcher, call, settling, triggered, page>>

(***************************************************************************)
(* updateFeatured, lines 422-445.                                          *)
(***************************************************************************)
\* a comes before b in order('bloom_score', desc).order('published_at', desc)
Before(a, b) ==
    \/ a.bloom_score > b.bloom_score
    \/ a.bloom_score = b.bloom_score /\ a.published_at > b.published_at

\* the answers the select with limit(3) can give: rows tied in both keys come in any order
TopSets(rows, t) ==
    LET eligible == PublishedSince(rows, t, FeaturedWindow)
    IN  {S \in SUBSET eligible :
           /\ Cardinality(S) = Min(FeaturedLimit, Cardinality(eligible))
           /\ \A a \in S : \A b \in eligible \ S : ~Before(b, a)}

\* ClearFeatured without the update: the rows stay featured.
ClearNothing(rows) == rows

ClearFeatured(rows) == {[r EXCEPT !.is_featured = FALSE] : r \in rows}

SetFeatured(rows, ids) ==
    {IF r.id \in ids THEN [r EXCEPT !.is_featured = TRUE] ELSE r : r \in rows}

(***************************************************************************)
(* The table as earlier runs left it at StartHour: rows the store loop     *)
(* inserted, featured by updateFeatured.                                   *)
(***************************************************************************)
RECURSIVE Stored(_)
Stored(pairs) ==
    IF pairs = <<>> THEN {}
    ELSE LET before == Stored(SubSeq(pairs, 1, Len(pairs) - 1))
             last   == pairs[Len(pairs)]
         IN  Inserted(before, Record(Mapped(last[1], JArray(<<last[2]>>), 1), min_bloom_score))

Featured(rows) ==
    LET S == CHOOSE T \in TopSets(rows, StartHour) : TRUE
    IN  SetFeatured(ClearFeatured(rows), {r.id : r \in S})

Histories ==
    { {},
      Featured(Stored(<< <<Item("gnews", "u2", tSolar2, "e2", 48), oGood>> >>)),
      Featured(Stored(<< <<Item("rss", "u3", tMars3, "e3", 70), oFour>>,
                         <<Item("guardian", "u1", tThe, "e5", 40), oLow>>,
                         <<Item("rss", "u6", tThe, "e8", 70), oGood>>,
                         <<Item("rss", "u7", tThe, NULL, 48), oBare>> >>)) }

(***************************************************************************)
(* run(), lines 451-588.                                                   *)
(***************************************************************************)
ZeroStats ==
    [fetched |-> 0, classified |-> 0, published |-> 0, rejected |-> 0,
     deduplicated |-> 0, errors |-> <<>>]

NoLocals ==
    /\ allArticles' = <<>>
    /\ newArticles' = <<>>
    /\ classified' = <<>>
    /\ idx' = 1
    /\ topIds' = {}

BoundedConfig ==
    [batch_size |-> SmallBatch, max_articles |-> SmallCap, min_bloom_score |-> min_bloom_score]

NoPrev ==
    [valid |-> FALSE, clean |-> FALSE, crashed |-> FALSE, snapshot |-> <<>>,
     stats |-> ZeroStats, inserted |-> 0, at |-> 0]

\* What is remembered of a behaviour and of its current run: the runs started, the
\* hour the run started at and the faults so far; the oracle's answer to each chunk,
\* the failed store requests, the exception thrown and the counters at that moment,
\* the calls of findSimilar, the chunks classifyBatch was called with and the delays
\* taken between them, the inserts attempted, the rows inserted, the inserts refused
\* by the unique constraint, the rows featured when the run began; and the run before.
FreshHist(n, faults, rows, prev) ==
    [run |-> n, at |-> now, faults |-> faults, oracle |-> <<>>, failed |-> 0,
     thrown |-> "", atThrow |-> ZeroStats, titleLookups |-> 0, chunks |-> <<>>,
     delays |-> 0, attempts |-> 0,
     inserted |-> 0, skipped |-> 0,
     featuredBefore |-> {r.id : r \in {x \in rows : x.is_featured}}, prev |-> prev]

Resting == {"idle", "returned", "crashed"}
InTry   == {"fetch", "dedup", "classify", "store",
            "featured_clear", "featured_select", "featured_set"}
Running == InTry \cup {"report", "log"}

Init ==
    /\ articles \in Histories
    /\ ingestion_log = <<>>
    /\ now = StartHour
    /\ config = BoundedConfig
    /\ pc = "idle"
    /\ stats = ZeroStats
    /\ snapshot = <<>>
    /\ allArticles = <<>>
    /\ newArticles = <<>>
    /\ classified = <<>>
    /\ idx = 1
    /\ topIds = {}
    /\ hist = FreshHist(0, 0, {}, NoPrev)
    /\ fetcher = IdleFetcher
    /\ call = IdleCall
    /\ reading = IdleReading
    /\ settling = IdleSettling
    /\ triggered = IdleTriggered
    /\ page = IdlePage

\* The scheduler invokes run(): lines 452-463.
Start(maxRuns) ==
    /\ pc \in Resting
    /\ hist.run < maxRuns
    /\ pc' = "fetch"
    /\ stats' = ZeroStats
    /\ hist' = FreshHist(hist.run + 1, hist.faults, articles,
                         IF hist.run = 0 THEN NoPrev
                         ELSE [valid |-> TRUE,
                               clean |-> pc = "returned" /\ hist.failed = 0 /\ hist.thrown = "",
                               crashed |-> pc = "crashed",
                               snapshot |-> snapshot, stats |-> stats,
                               inserted |-> hist.inserted, at |-> hist.at])
    /\ UNCHANGED <<aside, store, now, config, snapshot, loc>>

\* Fetch with stats.fetched taken before the filter, the dedup and the cap.
FetchCountingEmitted(settled) ==
    /\ pc = "fetch"
    /\ snapshot' = settled
    /\ allArticles' = Aggregate(settled, config.max_articles)
    /\ stats' = [stats EXCEPT !.fetched = Len(FanIn(settled))]
    /\ newArticles' = <<>>
    /\ idx' = 1
    /\ pc' = "dedup"
    /\ UNCHANGED <<aside, store, now, config, classified, topIds, hist>>

\* Lines 469-496: the adapters settle; fan-in, filter, dedup, cap, stats.fetched.
Fetch(settled) ==
    /\ pc = "fetch"
    /\ snapshot' = settled
    /\ allArticles' = Aggregate(settled, config.max_articles)
    /\ stats' = [stats EXCEPT !.fetched = Len(allArticles')]
    /\ newArticles' = <<>>
    /\ idx' = 1
    /\ pc' = "dedup"
    /\ UNCHANGED <<aside, store, now, config, classified, topIds, hist>>

\* stats.deduplicated++ of the history loop, left out.
CountNothing(st) == st

\* stats.deduplicated++ of the history loop, done twice.
CountTwice(st) == [st EXCEPT !.deduplicated = @ + 2]

\* Lines 505 and 510: stats.deduplicated++ of the history loop
CountDuplicate(st) == [st EXCEPT !.deduplicated = @ + 1]

\* Lines 502-514: one pass of the history loop.  urlOk and titleOk say whether
\* the request of isDuplicate and of findSimilar is answered.
CheckHistory(urlOk, titleOk) ==
    /\ pc = "dedup"
    /\ idx <= Len(allArticles)
    /\ LET article == allArticles[idx]
           exists  == isDuplicate(IF urlOk THEN Data(ByUrl(articles, article.source_url))
                                  ELSE NoData)
           similar == findSimilar(article.title,
                         IF titleOk THEN Data(PublishedSince(articles, now, SimilarWindow))
                         ELSE NoData)
           failed  == (IF urlOk THEN 0 ELSE 1) + (IF exists \/ titleOk THEN 0 ELSE 1)
       IN  /\ titleOk \/ ~exists
           /\ hist.faults + failed <= MaxFaults
           /\ IF exists \/ similar
              THEN /\ stats' = CountDuplicate(stats)
                   /\ newArticles' = newArticles
              ELSE /\ stats' = stats
                   /\ newArticles' = Append(newArticles, article)
           /\ hist' = [hist EXCEPT !.faults = @ + failed, !.failed = @ + failed,
                                   !.titleLookups = @ + (IF exists THEN 0 ELSE 1)]
    /\ idx' = idx + 1
    /\ UNCHANGED <<aside, store, now, config, pc, snapshot, allArticles, classified, topIds>>

\* Lines 518-521: if (newArticles.length === 0) return;
NoNewArticles ==
    /\ pc = "dedup"
    /\ idx > Len(allArticles)
    /\ newArticles = <<>>
    /\ pc' = "returned"
    /\ NoLocals
    /\ UNCHANGED <<aside, store, now, config, stats, snapshot, hist>>

\* StartClassify that does not wait for the end of the history loop.
StartClassifyEarly ==
    /\ pc = "dedup"
    /\ newArticles # <<>>
    /\ pc' = "classify"
    /\ idx' = 1
    /\ UNCHANGED <<aside, store, now, config, stats, snapshot, allArticles, newArticles,
                   classified, topIds, hist>>

\* Line 523: the history loop is over and has left candidates.
StartClassify ==
    /\ pc = "dedup"
    /\ idx > Len(allArticles)
    /\ newArticles # <<>>
    /\ pc' = "classify"
    /\ idx' = 1
    /\ UNCHANGED <<aside, store, now, config, stats, snapshot, allArticles, newArticles,
                   classified, topIds, hist>>

\* Batch without the end of the slice: newArticles.slice(i).
BatchToEnd == SubSeq(newArticles, idx, Len(newArticles))

\* newArticles.slice(i, i + config.batch_size), with idx = i + 1
Batch == SubSeq(newArticles, idx, Min(idx + config.batch_size - 1, Len(newArticles)))

\* Lines 527-538: one pass of the classification loop, for one answer of the oracle.
Classify(response) ==
    /\ pc = "classify"
    /\ idx <= Len(newArticles)
    /\ LET results == classifyBatch(Batch, response)
       IN  /\ classified' = classified \o results
           /\ stats' = [stats EXCEPT !.classified = @ + Len(results)]
    /\ idx' = idx + config.batch_size
    /\ hist' = [hist EXCEPT
                  !.oracle = Append(@, response),
                  !.chunks = Append(@, Batch),
                  \* lines 535-537: if (i + config.batch_size < newArticles.length)
                  !.delays = @ + (IF (idx - 1) + config.batch_size < Len(newArticles)
                                  THEN 1 ELSE 0)]
    /\ UNCHANGED <<aside, store, now, config, pc, snapshot, allArticles, newArticles, topIds>>

StartStore ==
    /\ pc = "classify"
    /\ idx > Len(newArticles)
    /\ pc' = "store"
    /\ idx' = 1
    /\ UNCHANGED <<aside, store, now, config, stats, snapshot, allArticles, newArticles,
                   classified, topIds, hist>>

\* Counted with a skipped insert recorded as an error.
CountedSkipAsError(st, result) ==
    CASE result = "skipped"   -> [st EXCEPT !.errors = Append(@, "insert failed")]
      [] result = "error"     -> [st EXCEPT !.errors = Append(@, "insert failed")]
      [] result = "published" -> [st EXCEPT !.published = @ + 1]
      [] result = "rejected"  -> [st EXCEPT !.rejected = @ + 1]

\* Counted with a failed insert counted as a rejected item.
CountedErrorAsRejected(st, result) ==
    CASE result = "skipped"   -> [st EXCEPT !.deduplicated = @ + 1]
      [] result = "error"     -> [st EXCEPT !.rejected = @ + 1]
      [] result = "published" -> [st EXCEPT !.published = @ + 1]
      [] result = "rejected"  -> [st EXCEPT !.rejected = @ + 1]

\* Lines 547-555: the counters after one result of storeArticle
Counted(st, result) ==
    CASE result = "skipped"   -> [st EXCEPT !.deduplicated = @ + 1]
      [] result = "error"     -> [st EXCEPT !.errors = Append(@, "insert failed")]
      [] result = "published" -> [st EXCEPT !.published = @ + 1]
      [] result = "rejected"  -> [st EXCEPT !.rejected = @ + 1]

\* Store that leaves the loop position where it is when the insert failed.
StoreRetried(reached) ==
    /\ pc = "store"
    /\ idx <= Len(classified)
    /\ reached \/ hist.faults < MaxFaults
    /\ LET record == Record(classified[idx], config.min_bloom_score)
       IN  /\ articles' = IF reached THEN Inserted(articles, record) ELSE articles
           /\ stats' = Counted(stats, storeArticle(articles, record, reached))
           /\ hist' = [hist EXCEPT
                         !.faults = @ + (IF reached THEN 0 ELSE 1),
                         !.failed = @ + (IF reached THEN 0 ELSE 1),
                         !.attempts = @ + 1,
                         !.inserted = @ + Cardinality(articles') - Cardinality(articles),
                         !.skipped = @ + (IF reached /\ Conflicts(articles, record)
                                          THEN 1 ELSE 0)]
    /\ idx' = IF reached THEN idx + 1 ELSE idx
    /\ UNCHANGED <<aside, ingestion_log, now, config, pc, snapshot, allArticles, newArticles,
                   classified, topIds>>

\* Lines 545-556: one pass of the store loop.  reached says whether the insert
\* request reaches the table (else storeArticle returns { error }).
Store(reached) ==
    /\ pc = "store"
    /\ idx <= Len(classified)
    /\ reached \/ hist.faults < MaxFaults
    /\ LET record == Record(classified[idx], config.min_bloom_score)
       IN  /\ articles' = IF reached THEN Inserted(articles, record) ELSE articles
           /\ stats' = Counted(stats, storeArticle(articles, record, reached))
           /\ hist' = [hist EXCEPT
                         !.faults = @ + (IF reached THEN 0 ELSE 1),
                         !.failed = @ + (IF reached THEN 0 ELSE 1),
                         !.attempts = @ + 1,
                         !.inserted = @ + Cardinality(articles') - Cardinality(articles),
                         !.skipped = @ + (IF reached /\ Conflicts(articles, record)
                                          THEN 1 ELSE 0)]
    /\ idx' = idx + 1
    /\ UNCHANGED <<aside, ingestion_log, now, config, pc, snapshot, allArticles, newArticles,
                   classified, topIds>>

\* Line 559: updateFeatured is called.
StartFeatured ==
    /\ pc = "store"
    /\ idx > Len(classified)
    /\ pc' = "featured_clear"
    /\ UNCHANGED <<aside, store, now, config, stats, snapshot, loc, hist>>

\* Lines 424-427.
FeaturedClear ==
    /\ pc = "featured_clear"
    /\ articles' = ClearFeatured(articles)
    /\ pc' = "featured_select"
    /\ UNCHANGED <<aside, ingestion_log, now, config, stats, snapshot, loc, hist>>

\* Lines 430-437.
FeaturedSelect ==
    /\ pc = "featured_select"
    /\ \E S \in TopSets(articles, now) : topIds' = {r.id : r \in S}
    /\ pc' = "featured_set"
    /\ UNCHANGED <<aside, store, now, config, stats, snapshot, allArticles, newArticles,
                   classified, idx, hist>>

\* Lines 439-444.
FeaturedSet ==
    /\ pc = "featured_set"
    /\ articles' = IF topIds # {} THEN SetFeatured(articles, topIds) ELSE articles
    /\ pc' = "report"
    /\ UNCHANGED <<aside, ingestion_log, now, config, stats, snapshot, loc, hist>>

\* Lines 561-565: updateFeatured has returned; the counters are printed.
Report ==
    /\ pc = "report"
    /\ pc' = "log"
    /\ UNCHANGED <<aside, store, now, config, stats, snapshot, loc, hist>>

Message(at) == "error in " \o at

\* Caught without the push: the exception is swallowed.
CaughtSilently(st, message) == st

\* Lines 567-570: catch (err) { stats.errors.push(err.message) }
Caught(st, message) == [st EXCEPT !.errors = Append(@, message)]

\* A stage of the try block throws.
Throw ==
    /\ pc \in InTry
    /\ hist.faults < MaxFaults
    /\ stats' = Caught(stats, Message(pc))
    /\ hist' = [hist EXCEPT !.faults = @ + 1, !.thrown = Message(pc), !.atThrow = stats]
    /\ pc' = "log"
    /\ UNCHANGED <<aside, store, now, config, snapshot, loc>>

\* Lines 575-584: the row of the run (with the number of the run that wrote it).
AuditRow(st, n) ==
    [source |-> "all",
     articles_fetched |-> st.fetched,
     articles_classified |-> st.classified,
     articles_published |-> st.published,
     articles_rejected |-> st.rejected,
     articles_deduplicated |-> st.deduplicated,
     errors |-> IF Len(st.errors) > 0 THEN st.errors ELSE <<>>,
     errors_null |-> ~(Len(st.errors) > 0),
     run |-> n]

WriteLog ==
    /\ pc = "log"
    /\ ingestion_log' = Append(ingestion_log, AuditRow(stats, hist.run))
    /\ pc' = "returned"
    /\ NoLocals
    /\ UNCHANGED <<aside, articles, now, config, stats, snapshot, hist>>

\* Crash that writes the audit row of the run on its way out.
CrashLogged ==
    /\ pc \in Running
    /\ hist.run < MaxRuns
    /\ pc' = "crashed"
    /\ stats' = ZeroStats
    /\ hist' = [hist EXCEPT !.oracle = <<>>, !.failed = 0, !.thrown = "",
                            !.atThrow = ZeroStats, !.titleLookups = 0,
                            !.chunks = <<>>, !.delays = 0,
                            !.attempts = 0, !.skipped = 0]
    /\ ingestion_log' = Append(ingestion_log, AuditRow(stats, hist.run))
    /\ NoLocals
    /\ UNCHANGED <<aside, articles, now, config, snapshot>>

\* The process is killed in the middle of a run that another run follows: what it
\* had in memory is gone, what it had written to the tables stays.
Crash ==
    /\ pc \in Running
    /\ hist.run < MaxRuns
    /\ pc' = "crashed"
    /\ stats' = ZeroStats
    /\ hist' = [hist EXCEPT !.oracle = <<>>, !.failed = 0, !.thrown = "",
                            !.atThrow = ZeroStats, !.titleLookups = 0,
                            !.chunks = <<>>, !.delays = 0,
                            !.attempts = 0, !.skipped = 0]
    /\ NoLocals
    /\ UNCHANGED <<aside, store, now, config, snapshot>>

\* Time passes before a run, after at least minRuns runs.
Tick(minRuns, maxRuns) ==
    /\ pc \in Resting
    /\ minRuns <= hist.run
    /\ hist.run < maxRuns
    /\ now < LastHour
    /\ now' = now + TickHours
    /\ UNCHANGED <<aside, store, config, pc, stats, snapshot, loc, hist>>

\* One run of the pipeline over any snapshot, at any of the clock's hours.
Next ==
    \/ Start(1)
    \/ \E settled \in Snapshots : Fetch(settled)
    \/ \E urlOk, titleOk \in BOOLEAN : CheckHistory(urlOk, titleOk)
    \/ NoNewArticles
    \/ StartClassify
    \/ \E response \in Responses(Len(Batch)) : Classify(response)
    \/ StartStore
    \/ \E reached \in BOOLEAN : Store(reached)
    \/ StartFeatured
    \/ FeaturedClear
    \/ FeaturedSelect
    \/ FeaturedSet
    \/ Report
    \/ Throw
    \/ WriteLog
    \/ Tick(0, 1)

Spec == Init /\ [][Next]_vars

\* The snapshots and the oracle's answers of the behaviours of several runs.
SnapshotsTwice ==
    { [k \in 1..Len(Adapters) |-> IF k = 1 THEN Rejected ELSE Fulfilled(<<>>)],
      [k \in 1..Len(Adapters) |->
          IF Adapters[k] = "newsapi"
          THEN Fulfilled(<<Item("newsapi", "u2", tSolar2, "e2", 48),
                           Item("newsapi", "u3", tMars3, NULL, 70)>>)
          ELSE IF Adapters[k] = "guardian"
          THEN Fulfilled(<<Item("guardian", "u4", tMars2, "e4", 70)>>)
          ELSE Fulfilled(<<>>)] }

ResponsesTwice(n) ==
    { Throws,
      Replies(<<Json(JArray(Pattern(n, oLow, oGood)))>>) }

\* Runs of the pipeline one after the other, a killed run among them.
NextTwice ==
    \/ Start(MaxRuns)
    \/ \E settled \in SnapshotsTwice : Fetch(settled)
    \/ \E urlOk, titleOk \in BOOLEAN : CheckHistory(urlOk, titleOk)
    \/ NoNewArticles
    \/ StartClassify
    \/ \E response \in ResponsesTwice(Len(Batch)) : Classify(response)
    \/ StartStore
    \/ \E reached \in BOOLEAN : Store(reached)
    \/ StartFeatured
    \/ FeaturedClear
    \/ FeaturedSelect
    \/ FeaturedSet
    \/ Report
    \/ Throw
    \/ WriteLog
    \/ Crash
    \/ Tick(1, MaxRuns)

SpecTwice == Init /\ [][NextTwice]_vars

(***************************************************************************)
(* One run with the default configuration: one adapter returns 5 items,    *)
(* one fails, one returns 7 items of which 2 repeat URLs of the 5, one     *)
(* returns nothing; the table has a row with the URL of one item and a     *)
(* published row whose title shares 2 of 3 words with another; the oracle  *)
(* scores the 8 items it is given 5, 4, 3, 2, 1, 5, 4, 3.                  *)
(***************************************************************************)
ScenarioConfig ==
    [batch_size |-> batch_size, max_articles |-> max_articles,
     min_bloom_score |-> min_bloom_score]

\* Item k of the scenario; item 8 has the title that resembles a stored one.
ScenarioItem(api, k) ==
    Item(api, "s" \o ToString(k),
         IF k = 8 THEN tMars3 ELSE <<"i", "t", "e", "m", ToString(k)>>, "e", 70)

\* The 7 items: items 6 to 10 in order, with copies of items 1 and 2 at positions p < q.
ScenarioSeven(api, p, q) ==
    [k \in 1..7 |->
        IF k = p THEN ScenarioItem(api, 1)
        ELSE IF k = q THEN ScenarioItem(api, 2)
        ELSE ScenarioItem(api, 5 + k - (IF k > p THEN 1 ELSE 0) - (IF k > q THEN 1 ELSE 0))]

\* Which adapter returns the 5, which fails, which returns the 7, in any assignment.
ScenarioSnapshots ==
    { [k \in 1..Len(Adapters) |->
          IF k = five THEN Fulfilled([i \in 1..5 |-> ScenarioItem(Adapters[k], i)])
          ELSE IF k = failed THEN Rejected
          ELSE IF k = seven THEN Fulfilled(ScenarioSeven(Adapters[k], p, q))
          ELSE Fulfilled(<<>>)] :
      <<five, failed, seven, p, q>> \in
          { t \in (1..Len(Adapters)) \X (1..Len(Adapters)) \X (1..Len(Adapters))
                     \X (1..7) \X (1..7) :
              /\ t[1] # t[2] /\ t[1] # t[3] /\ t[2] # t[3]
              /\ t[4] < t[5] } }

ScenarioHistory ==
    Featured(Stored(<< <<Item("rss", "s3", tThe, "e", 40), oLow>>,
                       <<Item("rss", "h1", tMars2, "e", 70), oGood>> >>))

ScenarioScores == <<5, 4, 3, 2, 1, 5, 4, 3>>

ScenarioResponse ==
    Replies(<<Json(JArray([k \in 1..Len(ScenarioScores) |->
                Obj(Fields, ScenarioScores[k], "science", FALSE, "sum", <<"tag">>, 9)]))>>)

InitScenario ==
    /\ articles = ScenarioHistory
    /\ ingestion_log = <<>>
    /\ now = StartHour
    /\ config = ScenarioConfig
    /\ pc = "idle"
    /\ stats = ZeroStats
    /\ snapshot = <<>>
    /\ allArticles = <<>>
    /\ newArticles = <<>>
    /\ classified = <<>>
    /\ idx = 1
    /\ topIds = {}
    /\ hist = FreshHist(0, 0, {}, NoPrev)
    /\ fetcher = IdleFetcher
    /\ call = IdleCall
    /\ reading = IdleReading
    /\ settling = IdleSettling
    /\ triggered = IdleTriggered
    /\ page = IdlePage

NextScenario ==
    \/ Start(1)
    \/ \E settled \in ScenarioSnapshots : Fetch(settled)
    \/ CheckHistory(TRUE, TRUE)
    \/ StartClassify
    \/ Classify(ScenarioResponse)
    \/ StartStore
    \/ Store(TRUE)
    \/ StartFeatured
    \/ FeaturedClear
    \/ FeaturedSelect
    \/ FeaturedSet
    \/ Report
    \/ WriteLog

SpecScenario == InitScenario /\ [][NextScenario]_vars

\* One call of one adapter, with any outcome of each of its sub-queries.
NextAdapter ==
    \/ \E api \in SeqToSet(Adapters), hasKey \in BOOLEAN : CallAdapter(api, hasKey)
    \/ \E outcome \in SubOutcomes(fetcher.api, fetcher.i) : SubQuery(outcome)
    \/ ReturnArticles

\* The adapters are called before the run has read or written anything.
InitAdapter == Init /\ articles = {}

SpecAdapter == InitAdapter /\ [][NextAdapter]_vars

\* A part of the pipeline on its own, with nothing stored yet.
InitCall == Init /\ articles = {}

\* Lines 469-474: the four adapters are called, one after the other, without await;
\* Promise.allSettled keeps one slot for each, in the order of the array.
CallAdapters ==
    /\ pc = "fetch"
    /\ settling = IdleSettling
    /\ settling' = [slots |-> [k \in 1..Len(Adapters) |-> Pending], order |-> <<>>]
    /\ UNCHANGED <<runVars, fetcher, call, reading, triggered, page>>

\* The promise of adapter k settles, whichever of the others have settled before
\* it: its outcome goes to slot k.  order remembers who settled when.
Settle(k, outcome) ==
    /\ pc = "fetch"
    /\ settling # IdleSettling
    /\ settling.slots[k] = Pending
    /\ settling' = [slots |-> [settling.slots EXCEPT ![k] = outcome],
                    order |-> Append(settling.order, [adapter |-> k, outcome |-> outcome])]
    /\ UNCHANGED <<runVars, fetcher, call, reading, triggered, page>>

\* Promise.allSettled resolves when every promise has settled: lines 469-496.
AllSettled ==
    /\ settling # IdleSettling
    /\ \A k \in 1..Len(Adapters) : settling.slots[k] # Pending
    /\ Fetch(settling.slots)

\* The fan-in of one run, the adapters settling in any order.
NextFanIn ==
    \/ Start(1)
    \/ CallAdapters
    \/ \E k \in 1..Len(Adapters) : \E outcome \in Feeds(Adapters[k]) : Settle(k, outcome)
    \/ AllSettled

SpecFanIn == InitCall /\ [][NextFanIn]_vars

\* One call of classifyBatch, with any chunk and any answer of the oracle.
NextClassify ==
    \/ \E batch \in CallBatches : \E response \in OracleAnswers(Len(batch)) :
          CallClassifyBatch(batch, response)
    \/ ReturnClassified

SpecClassify == InitCall /\ [][NextClassify]_vars

\* One call of estimateReadTime, with any text.
NextReadTime ==
    \/ \E text \in Texts : CallEstimateReadTime(text)
    \/ ReturnMinutes

SpecReadTime == InitCall /\ [][NextReadTime]_vars

TypeOK ==
    /\ pc \in Resting \cup Running
    /\ \A r \in articles : r.status \in {"published", "rejected"}

(***************************************************************************)
(* Properties.                                                             *)
(***************************************************************************)
LastRow == ingestion_log[Len(ingestion_log)]

RowsOfRun(n) == {k \in 1..Len(ingestion_log) : ingestion_log[k].run = n}

\* No two rows of the table have the same source_url.
OneRowPerUrl == \A r1, r2 \in articles : r1.source_url = r2.source_url => r1 = r2

\* Every row is still there after a step, the same but for is_featured.
NeverOverwritten ==
    \A r \in articles : \E q \in articles' : q = [r EXCEPT !.is_featured = q.is_featured]

\* C1: after any sequence of runs over any snapshots, a rerun on the same snapshot
\* and a run after a killed run among them, the table holds at most one row for each
\* source URL, and an insert of a stored URL neither adds a row nor changes the
\* stored one.
C1_OneRecordPerUrl == []OneRowPerUrl /\ [][NeverOverwritten]_vars

C1_Witness ==
    /\ pc = "returned"
    /\ hist.prev.crashed
    /\ hist.prev.inserted > 0
    /\ hist.prev.snapshot = snapshot
    /\ hist.skipped > 0

\* The source URLs of the items a sub-query answered with, none when it failed.
UrlsOf(outcome) ==
    IF outcome.kind = "items"
    THEN [k \in 1..Len(outcome.items) |-> outcome.items[k].url]
    ELSE <<>>

\* C11: in an adapter, a sub-query that fails contributes no item and nothing else
\* is lost: the array holds the items of the sub-queries that answered with items,
\* in order; the adapter goes through all its sub-queries and returns that array;
\* it never rejects.
C11_SubQueryFailureIsLocal ==
    /\ fetcher.pc \in {"idle", "loop", "returned"}
    /\ [k \in 1..Len(fetcher.articles) |-> fetcher.articles[k].source_url]
          = Concat([j \in 1..Len(fetcher.outcomes) |-> UrlsOf(fetcher.outcomes[j])])
    /\ Len(fetcher.outcomes) = fetcher.i - 1
    /\ (fetcher.pc = "returned" /\ fetcher.i > 1) =>
          Len(fetcher.outcomes) = SubQueries(fetcher.api)

C11_Witness ==
    /\ fetcher.pc = "returned"
    /\ fetcher.api = "newsapi"
    /\ Len(fetcher.outcomes) = NewsApiQueries
    /\ fetcher.outcomes[1].kind = "rejects"
    /\ fetcher.outcomes[2].kind = "items"
    /\ fetcher.outcomes[3].kind = "malformed"
    /\ fetcher.outcomes[4].kind = "bad_list"
    /\ fetcher.outcomes[5].kind = "items"
    /\ Len(fetcher.articles) = 3

\* C2: every invocation of run() has written exactly one row to ingestion_log
\* when it returns, however its stages ended.
C2_OneAuditRowPerRun ==
    pc = "returned" => Cardinality(RowsOfRun(hist.run)) = 1

\* C3: a stored row is 'published' exactly when its bloom_score is at least
\* min_bloom_score and 'rejected' otherwise, and no row below the threshold is
\* returned by the feed, weird, featured and trending queries.
C3_StatusByBloom ==
    /\ \A r \in articles :
          /\ r.status \in {"published", "rejected"}
          /\ r.status = "published" <=> r.bloom_score >= config.min_bloom_score
    /\ \A a \in feed_articles \cup weird_articles \cup featured_articles \cup trending_articles :
          a.bloom_score >= config.min_bloom_score

C3_Witness ==
    /\ pc = "returned"
    /\ hist.inserted >= 2
    /\ \E r \in articles : r.bloom_score = min_bloom_score - 1 /\ r.status = "rejected"
    /\ \E r \in feed_articles : r.bloom_score = min_bloom_score

\* The similarity of two titles as the specification defines it: the size of the
\* intersection of the two token sets over the larger of the two sets' sizes.
TokenSet(title) == SeqToSet(Words(title))

TokenOverlapAtLeastThreshold(t1, t2) ==
    LET m == Max(Cardinality(TokenSet(t1)), Cardinality(TokenSet(t2)))
    IN  /\ m > 0
        /\ Cardinality(TokenSet(t1) \cap TokenSet(t2)) * ThresholdDen >= ThresholdNum * m

\* C4: a candidate whose title has token-overlap similarity >= 0.6 with the title of
\* a stored row published within the last 48 hours is never passed to the oracle
\* (stated here for the runs all of whose history lookups were answered).
C4_SimilarNeverClassified ==
    (pc = "classify" /\ hist.failed = 0) =>
        \A k \in 1..Len(newArticles) :
            ~\E r \in PublishedSince(articles, now, SimilarWindow) :
                TokenOverlapAtLeastThreshold(newArticles[k].title, r.title)

\* Whether the oracle call threw or its text is not parseable JSON.
CallFailedOrUnparseable(response) ==
    response.kind = "throws" \/ ~Parses(StripFences(response.text))

ChunkOf(k) == ((k - 1) \div config.batch_size) + 1

\* C5: when the oracle call for a chunk throws or its text is not parseable JSON,
\* every item of that chunk, and of that chunk only, is returned with bloom_score 3,
\* category 'progress', is_weird false, summary = its excerpt, no tags and
\* confidence 0, and the loop goes on with the next chunk.
C5_ChunkFallback ==
    /\ pc = "classify" =>
          /\ idx = Len(hist.oracle) * config.batch_size + 1
          /\ Len(classified) = Min(idx - 1, Len(newArticles))
    /\ pc \in Running /\ classified # <<>> =>
          \A k \in 1..Len(classified) :
             LET response == hist.oracle[ChunkOf(k)]
                 position == k - (ChunkOf(k) - 1) * config.batch_size
                 answer   == StripFences(response.text)[1].v
             IN  /\ classified[k].source_url = newArticles[k].source_url
                 /\ classified[k].title = newArticles[k].title
                 /\ CallFailedOrUnparseable(response) =>
                       /\ classified[k].bloom_score = 3
                       /\ classified[k].category_name = "progress"
                       /\ classified[k].is_weird = FALSE
                       /\ classified[k].ai_summary = newArticles[k].excerpt
                       /\ classified[k].ai_tags = <<>>
                       /\ classified[k].ai_confidence = 0
                 /\ (/\ ~CallFailedOrUnparseable(response)
                     /\ answer.type = "array"
                     /\ position <= Len(answer.items)
                     /\ answer.items[position] = oGood) =>
                       /\ classified[k].bloom_score = oGood.bloom_score
                       /\ classified[k].ai_confidence = oGood.confidence

C5_Witness ==
    /\ pc = "store"
    /\ Len(hist.oracle) = 2
    /\ CallFailedOrUnparseable(hist.oracle[1])
    /\ hist.oracle[1].kind = "replies"
    /\ ~CallFailedOrUnparseable(hist.oracle[2])
    /\ classified[1].ai_confidence = 0
    /\ classified[Len(classified)].bloom_score = 5

\* Whether a chunk of the run fell back to the default classification.
SomeChunkFellBack == \E c \in 1..Len(hist.oracle) : Fails(hist.oracle[c])

\* C6: when a chunk of the run fell back to the default classification, the error
\* list of the run's statistics and of its audit row is not empty.
C6_FallbackIsRecorded ==
    /\ (pc = "log" /\ SomeChunkFellBack) => stats.errors # <<>>
    /\ (pc = "returned" /\ SomeChunkFellBack) => ~LastRow.errors_null

\* The rows that rank highest by (bloom_score desc, published_at desc) among the
\* published rows of the last 24 hours: at most 3, all of them when there are fewer,
\* and none that a row left out comes before.
RanksHighest(S, rows, t) ==
    LET cand == {r \in rows : r.status = "published" /\ r.published_at >= t - 24}
    IN  /\ S \subseteq cand
        /\ Cardinality(S) = Min(3, Cardinality(cand))
        /\ \A a \in S : \A b \in cand \ S :
              \/ a.bloom_score > b.bloom_score
              \/ a.bloom_score = b.bloom_score /\ a.published_at >= b.published_at

C8_ScenarioStatsAsStated ==
    pc = "returned" =>
        /\ LastRow.articles_fetched = 12
        /\ LastRow.articles_deduplicated = 4
        /\ LastRow.articles_classified = 8
        /\ LastRow.articles_published = 6
        /\ LastRow.articles_rejected = 2

\* C8: the run of the scenario records fetched 10 (the unique items), deduplicated 2
\* (the two history matches), classified 8, published 6 and rejected 2, in its
\* statistics and in its audit row.
C8_ScenarioStats ==
    pc = "returned" =>
        /\ stats = [fetched |-> 10, deduplicated |-> 2, classified |-> 8,
                    published |-> 6, rejected |-> 2, errors |-> <<>>]
        /\ LastRow.articles_fetched = 10
        /\ LastRow.articles_deduplicated = 2
        /\ LastRow.articles_classified = 8
        /\ LastRow.articles_published = 6
        /\ LastRow.articles_rejected = 2

C8_Witness ==
    /\ pc = "returned"
    /\ Len(ingestion_log) = 1
    /\ Len(FanIn(snapshot)) = 12
    /\ Cardinality({FanIn(snapshot)[k].source_url : k \in 1..Len(FanIn(snapshot))}) = 10
    /\ snapshot[2] = Rejected
    /\ Cardinality({r \in articles : r.status = "published"}) = 6 + 1
    /\ Cardinality({r \in articles : r.status = "rejected"}) = 2 + 1

\* A run has returned that followed a run on the same snapshot, and no request to
\* the store failed and no exception was thrown in either.
RanTwiceOnSnapshot ==
    /\ pc = "returned"
    /\ hist.prev.valid
    /\ hist.prev.clean
    /\ hist.prev.snapshot = snapshot
    /\ hist.failed = 0
    /\ hist.thrown = ""

C10_ThrowIsAudited ==
    /\ (pc = "log" /\ hist.thrown # "") =>
          stats = [hist.atThrow EXCEPT !.errors = Append(@, hist.thrown)]
    /\ (pc = "returned" /\ hist.thrown # "") =>
          /\ RowsOfRun(hist.run) = {Len(ingestion_log)}
          /\ ~LastRow.errors_null
          /\ LastRow.errors = Append(hist.atThrow.errors, hist.thrown)
          /\ LastRow.articles_fetched = hist.atThrow.fetched
          /\ LastRow.articles_classified = hist.atThrow.classified
          /\ LastRow.articles_published = hist.atThrow.published
          /\ LastRow.articles_rejected = hist.atThrow.rejected
          /\ LastRow.articles_deduplicated = hist.atThrow.deduplicated

C10_Witness ==
    /\ pc = "returned"
    /\ hist.thrown = Message("store")
    /\ LastRow.articles_classified > 0
    /\ LastRow.articles_published > 0

\* C12: when an adapter has failed (its promise settled as rejected), the failure is
\* in the error list of the run when the audit row is about to be written; the
\* items of the adapters that succeeded are aggregated and the run goes on.
C12_AdapterFailureIsRecorded ==
    (pc = "log" /\ hist.thrown = ""
       /\ \E k \in 1..Len(snapshot) : snapshot[k].status = "rejected") =>
        /\ stats.fetched = Len(Aggregate(snapshot, config.max_articles))
        /\ stats.errors # <<>>

\* C13: when every chunk has been processed, the classified list has one item for
\* each candidate, in the order of the candidates and with the candidate's source
\* URL and title, whether the oracle's call for a chunk succeeded, failed or
\* answered fewer objects than the chunk has items.
C13_OneClassifiedPerCandidate ==
    pc = "store" =>
        /\ Len(classified) = Len(newArticles)
        /\ \A k \in 1..Len(classified) :
              /\ classified[k].source_url = newArticles[k].source_url
              /\ classified[k].title = newArticles[k].title
              /\ classified[k].excerpt = newArticles[k].excerpt

C13_Witness ==
    /\ pc = "store"
    /\ Len(newArticles) = 3
    /\ Len(classified) = 3
    /\ Len(hist.oracle) = 2
    /\ ~Fails(hist.oracle[1])
    /\ Len(StripFences(hist.oracle[1].text)[1].v.items) = 1
    /\ hist.oracle[2] = Throws

\* The number of items of chunk c of the candidates.
ChunkSize(c) == Min(config.batch_size, Len(newArticles) - (c - 1) * config.batch_size)

\* The response parses to a value that is no array, or to an array of fewer than n
\* objects.
FewerObjectsOrNoArray(response, n) ==
    /\ response.kind = "replies"
    /\ Parses(StripFences(response.text))
    /\ LET value == StripFences(response.text)[1].v
       IN  value.type # "array" \/ Len(value.items) < n

\* C14: every item of a chunk whose parsed response is no array or has fewer
\* objects than the chunk has items has the fallback defaults: bloom score 3,
\* category progress, not weird, summary = excerpt, no tags, confidence 0.
C14_ShapeMismatchFallsBack ==
    pc \in Running =>
        \A k \in 1..Len(classified) :
            FewerObjectsOrNoArray(hist.oracle[ChunkOf(k)], ChunkSize(ChunkOf(k))) =>
                /\ classified[k].bloom_score = 3
                /\ classified[k].category_name = "progress"
                /\ classified[k].is_weird = FALSE
                /\ classified[k].ai_summary = classified[k].excerpt
                /\ classified[k].ai_tags = <<>>
                /\ classified[k].ai_confidence = 0

\* A pass of the store loop whose insert reaches the table and finds the source
\* URL of the item stored.
ConflictStep ==
    /\ pc = "store"
    /\ idx' = idx + 1
    /\ hist'.failed = hist.failed
    /\ \E r \in articles : r.source_url = classified[idx].source_url

\* C15: when an insert fails with a uniqueness conflict on the source URL,
\* storeArticle reports skipped, deduplicated goes up by one, the error list and
\* the published and rejected counters stay, and the table is unchanged.
C15_ConflictIsSkipped ==
    [][ConflictStep =>
         /\ storeArticle(articles, Record(classified[idx], config.min_bloom_score), TRUE)
               = "skipped"
         /\ stats' = [stats EXCEPT !.deduplicated = @ + 1]
         /\ articles' = articles]_vars

C15_Witness ==
    /\ pc = "returned"
    /\ hist.skipped = 1
    /\ hist.inserted > 0
    /\ stats.deduplicated = 1
    /\ stats.errors = <<>>
    /\ LastRow.errors_null

\* A pass of the store loop whose insert fails without reaching the table.
FailedInsertStep ==
    /\ pc = "store"
    /\ idx' = idx + 1
    /\ hist'.failed = hist.failed + 1

\* C16: when an insert fails for another reason than a uniqueness conflict, its
\* message is appended to the error list, published, rejected and deduplicated
\* stay, the table is unchanged, and the loop goes on: when it is left, an insert
\* has been attempted for every classified item.
C16_InsertFailureIsRecorded ==
    /\ [][FailedInsertStep =>
            /\ stats' = [stats EXCEPT !.errors = Append(@, "insert failed")]
            /\ articles' = articles
            /\ pc' = "store"]_vars
    /\ [](pc = "featured_clear" => hist.attempts = Len(classified))

C16_Witness ==
    /\ pc = "featured_clear"
    /\ Len(classified) = 3
    /\ stats.errors = <<"insert failed">>
    /\ stats.published + stats.rejected = 2
    /\ ~\E r \in articles : r.source_url = classified[1].source_url
    /\ \E r \in articles : r.source_url = classified[3].source_url

\* The number of chunks of n candidates.
Chunks(n) == (n + config.batch_size - 1) \div config.batch_size

\* C20: nothing is retried within a run: the oracle has been called once for each
\* chunk the classification loop has reached and never more than once per chunk,
\* and an insert has been attempted once for each item the store loop has reached,
\* whether the calls and the inserts failed or not.
C20_NoRetry ==
    /\ pc \in Running =>
          /\ Len(hist.oracle) <= Chunks(Len(newArticles))
          /\ hist.attempts <= Len(classified)
    /\ pc = "classify" => Len(hist.oracle) = Chunks(Min(idx - 1, Len(newArticles)))
    /\ pc = "store" =>
          /\ Len(hist.oracle) = Chunks(Len(newArticles))
          /\ hist.attempts = idx - 1

C20_Witness ==
    /\ pc = "featured_clear"
    /\ Len(newArticles) = 3
    /\ Len(hist.oracle) = 2
    /\ hist.oracle[1] = Throws
    /\ hist.attempts = 3
    /\ stats.errors = <<"insert failed">>

\* The items of the adapters that settled fulfilled, in the order of the fan-in.
Emitted == FanIn(snapshot)

\* The position in Emitted of the first item that has a title and the source URL url.
FirstWith(url) ==
    CHOOSE j \in 1..Len(Emitted) :
        /\ Emitted[j].source_url = url /\ Emitted[j].title # <<>>
        /\ \A i \in 1..(j - 1) : ~(Emitted[i].source_url = url /\ Emitted[i].title # <<>>)

\* C17: every item the aggregator puts out has a title and a source URL, no source
\* URL is there twice, and the item kept for a URL is the first one emitted with it
\* (and a title) in the order of the fan-in; the items keep that order.
C17_FilteredFirstSeenWins ==
    pc = "dedup" =>
        /\ \A k \in 1..Len(allArticles) :
              /\ allArticles[k].title # <<>>
              /\ allArticles[k].source_url # NULL
              /\ allArticles[k] = Emitted[FirstWith(allArticles[k].source_url)]
        /\ \A k, l \in 1..Len(allArticles) :
              k < l => FirstWith(allArticles[k].source_url) < FirstWith(allArticles[l].source_url)

C17_Witness ==
    /\ pc = "dedup"
    /\ \E i, j \in 1..Len(Emitted) :
          /\ i < j
          /\ Emitted[i].source_url = Emitted[j].source_url
          /\ Emitted[i].title # Emitted[j].title
          /\ \E k \in 1..Len(allArticles) : allArticles[k] = Emitted[i]
    /\ \E i \in 1..Len(Emitted) : Emitted[i].title = <<>>
    /\ \E i \in 1..Len(Emitted) : Emitted[i].source_url = NULL

\* The filtered sequence without its repeated source URLs.
Unique == DropSeen(SelectSeq(Emitted, HasTitleAndUrl), {})

\* C18: the candidates of a run are the first max_articles items (200 in the
\* configuration of the script) of the filtered and deduplicated sequence: a prefix
\* of it, in its order, never longer than max_articles.
C18_CapKeepsPrefix ==
    /\ ScenarioConfig.max_articles = 200
    /\ pc = "dedup" =>
          /\ Len(allArticles) <= config.max_articles
          /\ Len(allArticles) = Min(config.max_articles, Len(Unique))
          /\ \A k \in 1..Len(allArticles) : allArticles[k] = Unique[k]

C18_Witness ==
    /\ pc = "dedup"
    /\ Len(Unique) > config.max_articles
    /\ Len(allArticles) = config.max_articles
    /\ Len(Emitted) > Len(Unique) + 1

\* Whether the table has a row with the source URL of a candidate.
ExactMatch(a) == \E r \in articles : r.source_url = a.source_url

\* Whether findSimilar finds a row for the title of a candidate.
FuzzyMatch(a) == findSimilar(a.title, Data(PublishedSince(articles, now, SimilarWindow)))

\* The candidates the history loop has gone through.
Checked == SubSeq(allArticles, 1, Min(idx - 1, Len(allArticles)))

\* C19: the history loop looks for an exact source URL match first and calls
\* findSimilar only for a candidate without one; it puts out the candidates with
\* neither match, in order, and counts each of the others once in deduplicated
\* (with every lookup answered).
C19_HistoryDedup ==
    (pc = "dedup" /\ hist.failed = 0) =>
        /\ newArticles = SelectSeq(Checked, LAMBDA a : ~ExactMatch(a) /\ ~FuzzyMatch(a))
        /\ stats.deduplicated = Len(Checked) - Len(newArticles)
        /\ hist.titleLookups = Len(SelectSeq(Checked, LAMBDA a : ~ExactMatch(a)))

C19_Witness ==
    /\ pc = "dedup"
    /\ hist.failed = 0
    /\ idx > Len(allArticles)
    /\ \E k \in 1..Len(allArticles) : ExactMatch(allArticles[k]) /\ FuzzyMatch(allArticles[k])
    /\ \E k \in 1..Len(allArticles) : ~ExactMatch(allArticles[k]) /\ FuzzyMatch(allArticles[k])
    /\ \E k \in 1..Len(allArticles) : ExactMatch(allArticles[k]) /\ ~FuzzyMatch(allArticles[k])
    /\ stats.deduplicated = 3
    /\ hist.titleLookups = 1

\* C21: when a run that raised no error has returned, the run in which every
\* candidate was a duplicate included, updateFeatured has been executed: no row
\* whose published_at is more than 24 hours old is featured.
C21_FeaturedRecomputedEveryRun ==
    (pc = "returned" /\ hist.thrown = "" /\ hist.failed = 0) =>
        \A r \in articles : r.is_featured => r.published_at >= now - FeaturedWindow

\* C22: a run that is killed, at whatever point, leaves the rows it inserted in the
\* table and writes no audit row, then and later; in the run that follows no step
\* removes or changes a stored row, and the table never holds two rows with one
\* source URL.
C22_CrashKeepsRowsWritesNoAudit ==
    /\ [][pc' = "crashed" => (articles' = articles /\ ingestion_log' = ingestion_log)]_vars
    /\ [](pc = "crashed" => RowsOfRun(hist.run) = {})
    /\ [](hist.prev.crashed => (RowsOfRun(hist.run - 1) = {} /\ OneRowPerUrl))
    /\ [][(pc = "crashed" \/ hist.prev.crashed) => NeverOverwritten]_vars

C22_Witness ==
    /\ pc = "returned"
    /\ hist.prev.crashed
    /\ hist.prev.inserted = 2
    /\ hist.prev.snapshot = snapshot
    /\ hist.inserted = 1
    /\ stats.deduplicated = 2
    /\ Cardinality(articles) = 3
    /\ Len(ingestion_log) = 1
    /\ LastRow.run = 2

\* C23: every item classifyBatch returns, whatever the oracle answered, has a bloom
\* score that is an integer from 1 to 5, a category of the ten of the rubric and a
\* confidence from 0.0 to 1.0 (in tenths, 0 to 10).
C23_ClassifiedInRange ==
    call.pc = "returned" =>
        \A k \in 1..Len(call.results) :
            /\ call.results[k].bloom_score \in 1..5
            /\ call.results[k].category_name \in Categories
            /\ call.results[k].ai_confidence \in 0..10

\* The minutes of a text of n words at 200 words a minute, rounded to the nearest
\* minute and clamped to [2, 15].
ClampedMinutes(n) ==
    LET rounded == (n + 100) \div 200
    IN  IF rounded < 2 THEN 2 ELSE IF rounded > 15 THEN 15 ELSE rounded

\* C24: for every excerpt, a missing or empty one included, estimateReadTime returns
\* an integer from 2 to 15; for an excerpt of n words it is the clamped minutes of
\* n words, or of the n + 1 or n + 2 pieces that whitespace around the words adds.
C24_ReadTimeInRange ==
    reading.pc = "returned" =>
        /\ reading.minutes \in 2..15
        /\ IF ~reading.text.given
              \/ (reading.text.words = 0 /\ ~reading.text.lead /\ ~reading.text.trail)
           THEN reading.minutes = 3
           ELSE reading.minutes \in {ClampedMinutes(reading.text.words + d) : d \in 0..2}
        /\ (reading.text.words > 0 /\ ~reading.text.lead /\ ~reading.text.trail) =>
              reading.minutes = ClampedMinutes(reading.text.words)
        /\ (reading.text.given /\ reading.text.words >= 2900) => reading.minutes = 15

C24_Witness ==
    /\ reading.pc = "returned"
    /\ reading.text.given
    /\ reading.text.words > 3100
    /\ reading.minutes = 15

\* C25: for every candidate title and every stored title findSimilar compares it
\* with, the similarity it computes, overlap / max of the two word counts, is the
\* size of the intersection of the two token sets over the larger of the two sets'
\* sizes (the two fractions are compared cross-multiplied).
C25_SimilarityIsTokenSetRatio ==
    pc = "dedup" =>
        \A k \in 1..Len(allArticles) :
            \A r \in PublishedSince(articles, now, SimilarWindow) :
                LET words         == Words(allArticles[k].title)
                    existingWords == Words(r.title)
                    tokens         == TokenSet(allArticles[k].title)
                    existingTokens == TokenSet(r.title)
                IN  Overlap(words, existingWords)
                        * Max(Cardinality(tokens), Cardinality(existingTokens))
                    = Cardinality(tokens \cap existingTokens)
                        * Max(Len(words), Len(existingWords))

\* The least number of chunks of at most s items that hold n items.
CeilDiv(n, s) == CHOOSE q \in 0..n : q * s >= n /\ (q - 1) * s < n

\* C26: the classification loop calls the oracle once for each chunk, one chunk
\* after the other; for n candidates and chunk size s (10 in the configuration of
\* the script) it makes ceil(n / s) calls, every chunk but the last has s items and
\* the last has from 1 to s, the chunks in order make up the candidate list, and the
\* delay is taken after every chunk but the last, ceil(n / s) - 1 times.
C26_ChunksAndDelays ==
    /\ ScenarioConfig.batch_size = 10
    /\ pc = "classify" =>
          /\ Len(hist.oracle) = Len(hist.chunks)
          /\ Concat(hist.chunks) = SubSeq(newArticles, 1, Min(idx - 1, Len(newArticles)))
          /\ \A c \in 1..Len(hist.chunks) :
                Len(hist.chunks[c]) = config.batch_size
                   \/ (c = Len(hist.chunks) /\ idx > Len(newArticles)
                         /\ Len(hist.chunks[c]) \in 1..config.batch_size)
          /\ hist.delays = IF idx > Len(newArticles) THEN Len(hist.chunks) - 1
                           ELSE Len(hist.chunks)
    /\ pc = "store" =>
          /\ Len(hist.oracle) = CeilDiv(Len(newArticles), config.batch_size)
          /\ Len(hist.chunks) = CeilDiv(Len(newArticles), config.batch_size)
          /\ Concat(hist.chunks) = newArticles
          /\ hist.delays = CeilDiv(Len(newArticles), config.batch_size) - 1

C26_Witness ==
    /\ pc = "store"
    /\ Len(newArticles) = 3
    /\ Len(hist.chunks) = 2
    /\ Len(hist.chunks[1]) = 2
    /\ Len(hist.chunks[2]) = 1
    /\ hist.delays = 1

\* A step in which the oracle is called, and one in which an insert is attempted.
OracleCallStep == Len(hist'.oracle) = Len(hist.oracle) + 1

InsertAttemptStep == hist'.attempts = hist.attempts + 1

\* C27: the stages of a run happen in order.  The oracle is called only when the
\* history loop has decided every candidate (kept or counted as a duplicate); an
\* insert is attempted only when every chunk has been classified; updateFeatured
\* starts only when an insert has been attempted for every classified item, and no
\* insert follows it; the audit row is written after the last change of the
\* articles table, and with it the run returns.
C27_StagesInOrder ==
    /\ [][OracleCallStep =>
             /\ pc = "classify"
             /\ Len(newArticles) + stats.deduplicated = Len(allArticles)]_vars
    /\ [][InsertAttemptStep =>
             /\ pc = "store"
             /\ Len(classified) = Len(newArticles)
             /\ Len(hist.oracle) * config.batch_size >= Len(newArticles)]_vars
    /\ [][(pc' = "featured_clear" /\ pc # "featured_clear") =>
             (pc = "store" /\ hist.attempts = Len(classified))]_vars
    /\ [][articles' # articles =>
             (pc \in {"store", "featured_clear", "featured_set"} /\ pc' # "returned"
                /\ RowsOfRun(hist.run) = {})]_vars
    /\ [][ingestion_log' # ingestion_log =>
             (pc = "log" /\ pc' = "returned" /\ articles' = articles)]_vars
    /\ [](pc \in {"featured_clear", "featured_select", "featured_set", "report"} =>
             hist.attempts = Len(classified))

C27_Witness ==
    /\ pc = "returned"
    /\ hist.titleLookups = 3
    /\ Len(hist.oracle) = 2
    /\ hist.attempts = 3
    /\ hist.inserted = 3
    /\ \E r \in articles : r.is_featured /\ r.id \notin hist.featuredBefore
    /\ Len(ingestion_log) = 1

\* An object as the oracle contract allows it: all six fields, a score from 1 to 5,
\* a category of the rubric, a summary of one or two sentences, a confidence from
\* 0.0 to 1.0.
InContract(o) ==
    /\ o.has = Fields
    /\ o.summary # ""
    /\ o.bloom_score \in 1..5
    /\ o.category \in Categories
    /\ o.confidence \in 0..10

\* The response parses to an array of one object per item, each within the contract.
OneObjectPerItem(response, n) ==
    /\ response.kind = "replies"
    /\ Parses(StripFences(response.text))
    /\ LET value == StripFences(response.text)[1].v
       IN  /\ value.type = "array"
           /\ Len(value.items) = n
           /\ \A i \in 1..n : InContract(value.items[i])

\* C28: when the response for a chunk parses to an array of one object per item,
\* item i of the result is item i of the chunk with exactly the bloom_score,
\* category, is_weird, summary, tags and confidence of object i, a confidence of
\* 0.0 and is_weird false included.
C28_ItemGetsItsObject ==
    (call.pc = "returned" /\ OneObjectPerItem(call.response, Len(call.batch))) =>
        /\ Len(call.results) = Len(call.batch)
        /\ \A i \in 1..Len(call.batch) :
              LET o == StripFences(call.response.text)[1].v.items[i]
              IN  /\ call.results[i].source_url = call.batch[i].source_url
                  /\ call.results[i].bloom_score = o.bloom_score
                  /\ call.results[i].category_name = o.category
                  /\ call.results[i].is_weird = o.is_weird
                  /\ call.results[i].ai_summary = o.summary
                  /\ call.results[i].ai_tags = o.tags
                  /\ call.results[i].ai_confidence = o.confidence

\* The text of the response is a JSON array between an opening fence, with or
\* without the json tag, and a closing fence.
FencedArray(response) ==
    /\ response.kind = "replies"
    /\ Len(response.text) = 3
    /\ response.text[1] \in {FenceJson, Fence}
    /\ response.text[2].t = "json"
    /\ response.text[2].v.type = "array"
    /\ response.text[3] = Fence

\* C30: when the oracle's text is a valid JSON array wrapped in a markdown code
\* fence, the array is used: each item has the score, category, oddity flag and tags
\* of its object, and no item has the confidence 0 of the chunk-wide fallback.
C30_FencedArrayIsUsed ==
    (call.pc = "returned" /\ FencedArray(call.response)) =>
        /\ Len(call.results) = Len(call.batch)
        /\ \A k \in 1..Len(call.results) :
              /\ call.results[k].ai_confidence # 0
              /\ k <= Len(call.response.text[2].v.items) =>
                    LET o == call.response.text[2].v.items[k]
                    IN  /\ call.results[k].bloom_score = o.bloom_score
                        /\ call.results[k].category_name = o.category
                        /\ call.results[k].is_weird = o.is_weird
                        /\ call.results[k].ai_tags = o.tags

C30_Witness ==
    /\ call.pc = "returned"
    /\ FencedArray(call.response)
    /\ call.response.text[1] = FenceJson
    /\ Len(call.batch) = 2
    /\ call.results[1].bloom_score = 5
    /\ call.results[1].category_name = "space"
    /\ call.results[1].ai_confidence = 9
    /\ call.results[2].bloom_score = 4

\* What adapter k settled with in this run, by the record of who settled when.
SettledWith(k) ==
    (CHOOSE e \in SeqToSet(settling.order) : e.adapter = k).outcome

\* The items of the adapters in the fixed order NewsAPI, Guardian, GNews, RSS, each
\* adapter's items in the order it emitted them.
InAdapterOrder ==
    Concat([k \in 1..Len(Adapters) |->
              IF SettledWith(k).status = "fulfilled" THEN SettledWith(k).value ELSE <<>>])

\* The positions, in the order of settling, of the adapters.
SettlingOrder == [j \in 1..Len(settling.order) |-> settling.order[j].adapter]

\* C29: the aggregated items are the filtered, deduplicated and truncated items of
\* the adapters taken in the fixed adapter order, each adapter's in its emission
\* order, whatever the order in which the adapters settled: the duplicate that wins
\* and the items that survive the cap do not depend on the interleaving.
C29_OrderIsAdapterOrder ==
    (pc = "dedup" /\ Len(settling.order) = Len(Adapters)) =>
        /\ Adapters = <<"newsapi", "guardian", "gnews", "rss">>
        /\ \A k \in 1..Len(Adapters) :
              SettledWith(k).status = "fulfilled" =>
                 \A i \in 1..Len(SettledWith(k).value) :
                    SettledWith(k).value[i].api_source = Adapters[k]
        /\ allArticles =
              Slice0(DropSeen(SelectSeq(InAdapterOrder, HasTitleAndUrl), {}), config.max_articles)
        /\ \A i, j \in 1..Len(allArticles) :
              i < j =>
                \E p, q \in 1..Len(InAdapterOrder) :
                    p < q /\ InAdapterOrder[p] = allArticles[i] /\ InAdapterOrder[q] = allArticles[j]

C29_Witness ==
    /\ pc = "dedup"
    /\ SettlingOrder = <<4, 2, 3, 1>>
    /\ \A k \in 1..Len(Adapters) : SettledWith(k).status = "fulfilled" /\ SettledWith(k).value # <<>>
    /\ Len(allArticles) = config.max_articles
    /\ allArticles[1].api_source = "newsapi"
    /\ allArticles[3].api_source = "guardian"

\* The candidates the history loop of the run skipped: deduplicated without the
\* inserts the unique constraint refused.
SkippedByHistory == stats.deduplicated - hist.skipped

\* C31: when a run that raised no exception is about to write its audit row, the
\* counters balance: fetched = skipped by the history loop + classified, classified
\* = published + rejected + inserts skipped on a conflict + inserts that failed, and
\* so deduplicated + published + rejected + number of errors = fetched; the audit
\* row carries these counters.
C31_CountersBalance ==
    /\ (pc = "log" /\ hist.thrown = "") =>
          /\ stats.fetched = SkippedByHistory + stats.classified
          /\ stats.classified = stats.published + stats.rejected + hist.skipped
                                   + Len(stats.errors)
          /\ stats.deduplicated + stats.published + stats.rejected + Len(stats.errors)
                = stats.fetched
          /\ stats.classified = hist.attempts
    /\ (pc = "returned" /\ hist.thrown = "" /\ RowsOfRun(hist.run) # {}) =>
          LastRow.articles_deduplicated + LastRow.articles_published
             + LastRow.articles_rejected + Len(LastRow.errors) = LastRow.articles_fetched

C31_Witness ==
    /\ pc = "log"
    /\ hist.thrown = ""
    /\ stats.fetched = 3
    /\ SkippedByHistory = 1
    /\ hist.skipped = 1
    /\ stats.published + stats.rejected = 1
    /\ Len(Emitted) > 3

\* Two rows whose published_at lie within 48 hours of each other.
SameWindow(a, b) ==
    a.published_at - b.published_at <= 48 /\ b.published_at - a.published_at <= 48

\* The rows the run inserted: the ids are given in the order of the inserts.
InsertedByRun == {r \in articles : r.id > Cardinality(articles) - hist.inserted}

\* C32: after a run all of whose store requests were answered, no two published
\* rows with published_at inside the same 48 hour window have titles of token
\* overlap similarity >= 0.6; stated here for the rows the run itself inserted, the
\* candidates of one batch.
C32_NoSimilarPublishedPair ==
    (pc = "returned" /\ hist.failed = 0 /\ hist.thrown = "") =>
        \A a, b \in InsertedByRun :
            (a # b /\ a.status = "published" /\ b.status = "published" /\ SameWindow(a, b)) =>
                ~TokenOverlapAtLeastThreshold(a.title, b.title)

\* A pass of the history loop in which a lookup came back without data.
FailedLookupStep ==
    /\ pc = "dedup"
    /\ idx' = idx + 1
    /\ hist'.failed > hist.failed

\* C33: a history lookup that returns no data reports no match.  In a pass of the
\* history loop with a failed lookup nothing is thrown and no error is recorded; the
\* candidate goes to the candidates for classification unless the lookup that was
\* answered found a similar title; a candidate whose source URL is stored goes
\* through when no stored title is similar.  The insert of such a candidate is
\* refused by the unique constraint: an insert is refused only in a run with a
\* failed request, and the table never holds a source URL twice.
C33_FailedLookupIsNoMatch ==
    /\ [][FailedLookupStep =>
             /\ pc' = "dedup"
             /\ stats'.errors = stats.errors
             /\ \/ newArticles' = Append(newArticles, allArticles[idx]) /\ stats' = stats
                \/ /\ FuzzyMatch(allArticles[idx])
                   /\ newArticles' = newArticles
                   /\ stats' = [stats EXCEPT !.deduplicated = @ + 1]
             /\ ~FuzzyMatch(allArticles[idx]) =>
                   newArticles' = Append(newArticles, allArticles[idx])]_vars
    /\ [](hist.skipped > 0 => hist.failed > 0)
    /\ []OneRowPerUrl

C33_Witness ==
    /\ pc = "returned"
    /\ hist.failed = 1
    /\ hist.skipped = 1
    /\ hist.inserted = 0
    /\ stats.classified = 1
    /\ stats.deduplicated = 1
    /\ stats.errors = <<>>
    /\ RowsOfRun(hist.run) # {}
    /\ LastRow.errors_null

(***************************************************************************)
(* Two invocations of run() that overlap in time: the store loop (lines    *)
(* 545-556) and updateFeatured (lines 422-445) of each, one request at a   *)
(* time, the requests of the two in any order.  No transaction spans the   *)
(* requests of updateFeatured.                                             *)
(***************************************************************************)
FeaturedViewLimit == 3    \* featured_articles: limit 3; fetchFeatured: &limit=3

OverlapItem(url, obj, at) ==
    Mapped(Item("rss", url, tThe, "e", at), JArray(<<obj>>), 1)

\* What the classification stage hands to the store loop of an invocation.
OverlapBatches ==
    { << OverlapItem("a1", oFour, 70), OverlapItem("a2", oFour, 70), OverlapItem("a3", oFour, 70) >>,
      << OverlapItem("b1", oGood, 71), OverlapItem("b2", oGood, 71), OverlapItem("b3", oGood, 71) >>,
      << OverlapItem("a1", oFour, 70), OverlapItem("c1", oLow, 71) >> }

overlapRest == <<ingestion_log, now, config, pc, stats, snapshot, loc, hist,
                 fetcher, call, reading, settling, page>>

\* run() is invoked and reaches its store loop with the list classified.
Trigger(k, batch) ==
    /\ triggered[k].pc = "idle"
    /\ triggered' = [triggered EXCEPT ![k] = [pc |-> "store", classified |-> batch,
                                              idx |-> 1, topIds |-> {}]]
    /\ UNCHANGED <<articles, overlapRest>>

\* Lines 545-556: one pass of the store loop of invocation k.
TriggeredStore(k) ==
    /\ triggered[k].pc = "store"
    /\ triggered[k].idx <= Len(triggered[k].classified)
    /\ articles' = Inserted(articles, Record(triggered[k].classified[triggered[k].idx],
                                            config.min_bloom_score))
    /\ triggered' = [triggered EXCEPT ![k].idx = @ + 1]
    /\ UNCHANGED overlapRest

\* Line 559: invocation k calls updateFeatured.
TriggeredStartFeatured(k) ==
    /\ triggered[k].pc = "store"
    /\ triggered[k].idx > Len(triggered[k].classified)
    /\ triggered' = [triggered EXCEPT ![k].pc = "featured_clear"]
    /\ UNCHANGED <<articles, overlapRest>>

\* Lines 424-427 in invocation k.
TriggeredClear(k) ==
    /\ triggered[k].pc = "featured_clear"
    /\ articles' = ClearFeatured(articles)
    /\ triggered' = [triggered EXCEPT ![k].pc = "featured_select"]
    /\ UNCHANGED overlapRest

\* Lines 430-437 in invocation k.
TriggeredSelect(k) ==
    /\ triggered[k].pc = "featured_select"
    /\ \E S \in TopSets(articles, now) :
          triggered' = [triggered EXCEPT ![k].pc = "featured_set",
                                         ![k].topIds = {r.id : r \in S}]
    /\ UNCHANGED <<articles, overlapRest>>

\* Lines 439-444 in invocation k; then run() writes its audit row and returns.
TriggeredSet(k) ==
    /\ triggered[k].pc = "featured_set"
    /\ articles' = IF triggered[k].topIds # {} THEN SetFeatured(articles, triggered[k].topIds)
                   ELSE articles
    /\ triggered' = [triggered EXCEPT ![k].pc = "returned"]
    /\ UNCHANGED overlapRest

NextOverlap ==
    \/ \E k \in Triggers : \E batch \in OverlapBatches : Trigger(k, batch)
    \/ \E k \in Triggers : TriggeredStore(k)
    \/ \E k \in Triggers : TriggeredStartFeatured(k)
    \/ \E k \in Triggers : TriggeredClear(k)
    \/ \E k \in Triggers : TriggeredSelect(k)
    \/ \E k \in Triggers : TriggeredSet(k)

SpecOverlap == Init /\ [][NextOverlap]_vars

\* The rows of the table with is_featured = true.
Flagged == {r \in articles : r.is_featured}

\* featured_articles without its limit: every flagged row of the feed is returned.
fetchFeaturedUnlimited == {featured_articles}

\* fetchFeatured, lines 651-657, over the view featured_articles (order by
\* published_at desc limit 3): the answers a request can get in this state, rows that
\* tie in published_at in any order.
fetchFeatured ==
    {S \in SUBSET featured_articles :
       /\ Cardinality(S) = Min(FeaturedViewLimit, Cardinality(featured_articles))
       /\ \A a \in S : \A b \in featured_articles \ S : b.published_at <= a.published_at}

PageLimit == 20    \* limit: 20 of loadMore, of the click handler and of init
MaxClicks == 2     \* clicks on filter buttons in a behaviour

\* The rows feed_articles has for each filter, fixed while the page is open.
FeedSizes ==
    { [c \in Filters |-> IF c = "all" THEN 45 ELSE 25],
      [c \in Filters |-> IF c = "all" THEN 20 ELSE 3],
      [c \in Filters |-> IF c = "all" THEN 7 ELSE 0] }

\* fetchArticles, lines 638-649: how many rows the request returns when it succeeds
fetchArticles(feed, category, offset) ==
    Min(PageLimit, Max(0, feed[category] - offset))

\* How a request and the code after its await can end: the array arrives and is
\* rendered; fetch or res.json() rejects, or the answer is no array and forEach
\* throws; the array arrives and rendering a row throws.
Outcomes == {"rows", "throws", "render_throws"}

pageRest == <<runVars, fetcher, call, reading, settling, triggered>>

Without(s, i) == SubSeq(s, 1, i - 1) \o SubSeq(s, i + 1, Len(s))

\* init(), lines 808-862: the first page of 'all' is fetched and rendered and the
\* scroll observer is installed; when anything throws the catch logs it and the
\* observer is never installed.
PageInit(feed, ok) ==
    /\ page.pc = "loading"
    /\ ok \/ page.faults < MaxFaults
    /\ LET n == fetchArticles(feed, "all", 0)
       IN  page' = IF ok
                   THEN [page EXCEPT !.pc = "ready", !.feed = feed, !.observer = TRUE,
                                     !.currentOffset = IF n > 0 THEN n ELSE @,
                                     !.shown = [@ EXCEPT !["all"] = n]]
                   ELSE [page EXCEPT !.pc = "ready", !.feed = feed, !.faults = @ + 1]
    /\ UNCHANGED pageRest

\* The sentinel comes into view and loadMore is called, lines 773-781: it returns
\* at once when isLoading or not hasMore, else sets isLoading and awaits
\* fetchArticles with the category and the offset of this moment.
LoadMore ==
    /\ page.pc = "ready"
    /\ page.observer
    /\ ~page.isLoading
    /\ page.hasMore
    /\ page' = [page EXCEPT !.isLoading = TRUE,
                            !.loading = Append(@, [category |-> page.currentCategory,
                                                   offset |-> page.currentOffset])]
    /\ UNCHANGED pageRest

\* Lines 783-798: the request of loadMore call i settles.  With the array, hasMore is
\* cleared on a short page, the rows are handed to the feed element, currentOffset
\* grows by their number and isLoading is reset; when the await or the rendering
\* throws, the rest of the function is not executed.
LoadSettles(i, outcome) ==
    /\ i \in 1..Len(page.loading)
    /\ outcome = "rows" \/ page.faults < MaxFaults
    /\ LET req == page.loading[i]
           n   == fetchArticles(page.feed, req.category, req.offset)
       IN  /\ outcome = "render_throws" => n > 0
           /\ page' = [page EXCEPT
                 !.loading = Without(@, i),
                 !.hasMore = IF outcome # "throws" /\ n < PageLimit THEN FALSE ELSE @,
                 !.shown = IF outcome = "rows" THEN [@ EXCEPT ![req.category] = @ + n] ELSE @,
                 !.currentOffset = IF outcome = "rows" THEN @ + n ELSE @,
                 !.isLoading = IF outcome = "rows" THEN FALSE ELSE @,
                 !.faults = IF outcome = "rows" THEN @ ELSE @ + 1]
    /\ UNCHANGED pageRest

\* Lines 908-916: a filter button is clicked; the handler sets currentCategory,
\* currentOffset = 0 and hasMore = true and awaits fetchArticles for that category.
\* isLoading is neither read nor written.
Click(c) ==
    /\ page.pc = "ready"
    /\ page.clicks < MaxClicks
    /\ page' = [page EXCEPT !.currentCategory = c, !.currentOffset = 0, !.hasMore = TRUE,
                            !.clicking = Append(@, [category |-> c, offset |-> 0]),
                            !.clicks = @ + 1]
    /\ UNCHANGED pageRest

\* Lines 917-934: the request of click handler i settles.  With the array, the
\* articles of the feed element are removed, the rows are rendered and currentOffset
\* is set to their number; when rendering throws the articles are already removed.
ClickSettles(i, outcome) ==
    /\ i \in 1..Len(page.clicking)
    /\ outcome = "rows" \/ page.faults < MaxFaults
    /\ LET req == page.clicking[i]
           n   == fetchArticles(page.feed, req.category, req.offset)
       IN  /\ outcome = "render_throws" => n > 0
           /\ page' = [page EXCEPT
                 !.clicking = Without(@, i),
                 !.shown = IF outcome = "throws" THEN @
                           ELSE [c \in Filters |->
                                   IF c = req.category /\ outcome = "rows" THEN n ELSE 0],
                 !.currentOffset = IF outcome = "rows" THEN n ELSE @,
                 !.faults = IF outcome = "rows" THEN @ ELSE @ + 1]
    /\ UNCHANGED pageRest

NextPage ==
    \/ \E feed \in FeedSizes : \E ok \in BOOLEAN : PageInit(feed, ok)
    \/ LoadMore
    \/ \E i \in 1..MaxClicks : \E outcome \in Outcomes : LoadSettles(i, outcome)
    \/ \E c \in Filters : Click(c)
    \/ \E i \in 1..MaxClicks : \E outcome \in Outcomes : ClickSettles(i, outcome)

SpecPage == InitCall /\ [][NextPage]_vars

\* Every request settles at last, one way or the other.
SpecPageFair ==
    /\ SpecPage
    /\ WF_vars(\E i \in 1..MaxClicks : \E outcome \in Outcomes : LoadSettles(i, outcome))
    /\ WF_vars(\E i \in 1..MaxClicks : \E outcome \in Outcomes : ClickSettles(i, outcome))

\* No handler is waiting for a request.
Quiet == page.pc = "ready" /\ page.loading = <<>> /\ page.clicking = <<>>

OneLoadInFlight == Len(page.loading) <= 1

\* C35: at most one request of loadMore is in flight; and when one loadMore and one
\* filter click have interleaved without a failure and both have finished,
\* currentOffset is the number of articles fetched and shown for currentCategory.
C35_OneLoadAndOffsetMatches ==
    /\ OneLoadInFlight
    /\ (Quiet /\ page.faults = 0 /\ page.clicks <= 1) =>
          page.currentOffset = page.shown[page.currentCategory]

\* C36: whenever isLoading is true it is false again later, whichever way the
\* request and the rendering end.
C36_LoadingIsReset == page.isLoading ~> ~page.isLoading

====
